---- MODULE Spec2Model ----
(***************************************************************************)
(* Model of the memory subsystem of devops-simba/helpers (memory.go):      *)
(* the object pool allocator (memoryAllocator), buffers and buckets        *)
(* (buffer_t, bucket_t), the buffer manager (bufferManager) and the        *)
(* mutex-guarded wrappers (synchedMemoryAllocator, syncBufferManager).     *)
(*                                                                         *)
(* Go pointers are indices into a heap (a sequence of structs); index 0 is *)
(* nil.  Every Go function is an operator from the state it reads to the   *)
(* state it leaves, with a "panic" flag where the function can panic.      *)
(***************************************************************************)
EXTENDS Integers, Sequences, FiniteSets, TLC

\* ------------------------------------------------------------------ bounds
\* Largest bucketSize handed to NewBufferManager.
MaxBucketSize == 3
\* Cap on TotalAllocatedBuffers (the lifetime counter is unbounded in the code).
MaxTotal == 3
\* The bursts handed to NewBufferManager for its two pools.
MgrBursts == {1, 2}
\* Largest burstSize handed to NewAllocator for the stand-alone pool.
MaxBurst == 4
\* Cap on the number of Allocate calls on the stand-alone pool.
MaxPoolAllocs == 5
\* Number of goroutines calling the synchronized wrappers.
NCallers == 2
\* Largest bucketSize handed to NewSynchedBufferManager.
MaxSyncBucketSize == 2
\* Cap on TotalAllocatedBuffers of the synchronized manager.
MaxSyncTotal == 3
\* The burstSize values handed to NewSynchedAllocator; 0 makes Allocate panic.
SyncBursts == {0, 1, 2}
\* Cap on the number of items of the synchronized allocator that are out.
MaxSyncOut == 2
\* Largest bucketSize of two managers that live side by side.
MaxPeerBucketSize == 2
\* Cap on TotalAllocatedBuffers of each of the two managers.
MaxPeerTotal == 2
\* Largest number of services handed to MergeServices.
MaxMerged == 2
\* Bucket size and cap on TotalAllocatedBuffers where free lists of unequal
\* entries are looked at.
MaxFitBucketSize == 4
MaxFitTotal == 4
\* Largest BucketSize and cap on TotalAllocatedBuffers of a manager whose
\* pools take one item at a time.
MaxRoundBucketSize == 3
MaxRoundTotal == 3
\* Largest burstSize handed to the constructors of the allocators.
MaxCtorBurst == 2

\* ------------------------------------------------------------ heap values
\* The nil pointer / nil interface.
NIL == 0
\* var sentry_bucket = &bucket_t{}: an address no pooled bucket has.
sentry_bucket == -1
\* A nil []byte.
NilSlice == [arr |-> NIL, off |-> 0, len |-> 0]
\* s[lo:hi] of a slice over a backing array of capacity cap (the bucket's
\* Buffer); the Go runtime panics unless 0 <= lo <= hi <= cap(s).
SliceOk(s, lo, hi, capacity) == 0 <= lo /\ lo <= hi /\ hi <= capacity - s.off
Slice(s, lo, hi) == [arr |-> s.arr, off |-> s.off + lo, len |-> hi - lo]

\* Zero values of the three item types the pools hold.
ZeroBuffer == [Data |-> NilSlice, Bucket |-> NIL, Start |-> 0, Size |-> 0, Next |-> NIL]
ZeroBucket == [Buffer |-> NilSlice, FreeBuffers |-> NIL, Next |-> NIL]
ZeroItem == [Next |-> NIL]

\* buffer_t.Reset / bucket_t.Reset / a user item's Reset, by dynamic type.
buffer_Reset(b) ==
    [b EXCEPT !.Next = NIL, !.Size = 0, !.Start = 0, !.Data = NilSlice, !.Bucket = NIL]
bucket_Reset(b) ==
    [b EXCEPT !.Next = NIL, !.FreeBuffers = NIL, !.Buffer = NilSlice]
item_Reset(i) == [i EXCEPT !.Next = NIL]
\* A Reset that clears the link and nothing else.
ResetLinkOnly(kind, item) == [item EXCEPT !.Next = NIL]

Reset(kind, item) ==
    CASE kind = "buffer" -> buffer_Reset(item)
      [] kind = "bucket" -> bucket_Reset(item)
      [] OTHER -> item_Reset(item)

\* ------------------------------------------------- object pool allocator
\* A MemoryItemListFactory is [kind, mode]: kind is the item type it makes,
\* mode "exact" returns count items (make(list, count)), mode "extra" is a
\* caller's factory that returns one item more than asked.  The other modes
\* are factories that break the contract: "nil" returns a nil collection,
\* "empty" one with no items, "nilFirst" and "nilLast" count items of which the
\* first, or the last, is nil.
\* The collection is [isNil, items, nilAt]: nilAt holds the positions (from 1)
\* whose item is nil.
CallFactory(factory, count) ==
    [isNil |-> factory.mode = "nil",
     items |-> [i \in 1..(CASE factory.mode = "extra" -> count + 1
                            [] factory.mode \in {"nil", "empty"} -> 0
                            [] OTHER -> count) |->
                  CASE factory.kind = "buffer" -> ZeroBuffer
                    [] factory.kind = "bucket" -> ZeroBucket
                    [] OTHER -> ZeroItem],
     nilAt |-> CASE factory.mode = "nilFirst" -> {1} \cap (1..count)
                 [] factory.mode = "nilLast" -> {count} \cap (1..count)
                 [] OTHER -> {}]

\* A chain that hands out the items in front of a nil item.
allocate_memory_items_chainUpToNil(c, heap) ==
    IF c.isNil \/ Len(c.items) = 0 \/ 1 \in c.nilAt
    THEN [first |-> NIL, size |-> 0, heap |-> heap, panic |-> ~c.isNil]
    ELSE [first |-> Len(heap) + 1, size |-> Len(c.items) - Cardinality(c.nilAt),
          heap |-> heap \o [i \in 1..(Len(c.items) - Cardinality(c.nilAt)) |->
                      [c.items[i] EXCEPT !.Next =
                          IF i < Len(c.items) - Cardinality(c.nilAt)
                          THEN Len(heap) + i + 1 ELSE NIL]],
          panic |-> FALSE]

\* allocate_memory_items, after the factory call.  A nil collection gives
\* (nil, 0).  GetItem(0) of an empty collection panics (index out of range).
\* A nil first item panics at prev.SetNext, unless the second item is nil too,
\* which gives (nil, 0); a nil item further on gives (nil, 0), and the items
\* chained so far are dropped.  Otherwise the fresh items are appended to the
\* heap and chained through Next, the last one's Next nil.
allocate_memory_items_chain(c, heap) ==
    IF c.isNil
    THEN [first |-> NIL, size |-> 0, heap |-> heap, panic |-> FALSE]
    ELSE IF Len(c.items) = 0
    THEN [first |-> NIL, size |-> 0, heap |-> heap, panic |-> TRUE]
    ELSE IF 1 \in c.nilAt
    THEN [first |-> NIL, size |-> 0, heap |-> heap, panic |-> 2 \notin c.nilAt]
    ELSE IF c.nilAt # {}
    THEN [first |-> NIL, size |-> 0, heap |-> heap, panic |-> FALSE]
    ELSE [first |-> Len(heap) + 1, size |-> Len(c.items),
          heap |-> heap \o [i \in 1..Len(c.items) |->
                      [c.items[i] EXCEPT !.Next =
                          IF i < Len(c.items) THEN Len(heap) + i + 1 ELSE NIL]],
          panic |-> FALSE]
allocate_memory_items(factory, count, heap) ==
    allocate_memory_items_chain(CallFactory(factory, count), heap)

\* A nil MemoryItemListFactory, and the nil Allocator a failed constructor
\* leaves its caller with.
NilFactory == [kind |-> "none", mode |-> "none"]
NoAllocator ==
    [avail |-> NIL, burstSize |-> 0, factory |-> NilFactory,
     reservedItems |-> 0, allocatedItems |-> 0]

\* &memoryAllocator{avail: nil, burstSize: burstSize, factory: factory}
memoryAllocator_literal(burstSize, factory) ==
    [avail |-> NIL, burstSize |-> burstSize, factory |-> factory,
     reservedItems |-> 0, allocatedItems |-> 0]

\* A constructor that takes every argument.
NewAllocatorUnchecked(burstSize, factory) ==
    [panic |-> FALSE, result |-> memoryAllocator_literal(burstSize, factory)]

\* NewAllocator: panic("Invalid argument") on a negative burst or a nil factory.
NewAllocator(burstSize, factory) ==
    IF burstSize < 0 \/ factory = NilFactory
    THEN [panic |-> TRUE, result |-> NoAllocator]
    ELSE [panic |-> FALSE, result |-> memoryAllocator_literal(burstSize, factory)]

\* NewSynchedAllocator: the same check; the mutex starts unlocked.
NewSynchedAllocator(burstSize, factory) ==
    IF burstSize < 0 \/ factory = NilFactory
    THEN [panic |-> TRUE, result |-> [memoryAllocator |-> NoAllocator, lock |-> NIL]]
    ELSE [panic |-> FALSE,
          result |-> [memoryAllocator |-> memoryAllocator_literal(burstSize, factory),
                      lock |-> NIL]]

\* A first half that mints a batch on every call.
memoryAllocator_Allocate_mintAlways(this, heap) ==
    allocate_memory_items(this.factory, this.burstSize, heap)

\* memoryAllocator.Allocate, first half: a batch is minted only when the free
\* list is empty.
memoryAllocator_Allocate_mint(this, heap) ==
    IF this.avail = NIL
    THEN allocate_memory_items(this.factory, this.burstSize, heap)
    ELSE [first |-> this.avail, size |-> 0, heap |-> heap, panic |-> FALSE]

\* Second half that installs the minted batch but does not count it as reserved.
memoryAllocator_Allocate_popNoReserve(this, heap, minted) ==
    IF minted.panic \/ minted.first = NIL
    THEN [this |-> this, heap |-> heap, result |-> NIL, panic |-> TRUE]
    ELSE [this |-> [this EXCEPT !.avail = minted.heap[minted.first].Next,
                                !.allocatedItems = @ + 1],
          heap |-> [minted.heap EXCEPT ![minted.first] = Reset(this.factory.kind, @)],
          result |-> minted.first, panic |-> FALSE]

\* memoryAllocator.Allocate, second half: count the batch, pop the head, reset it.
memoryAllocator_Allocate_pop(this, heap, minted) ==
    IF minted.panic \/ minted.first = NIL
    THEN [this |-> this, heap |-> heap, result |-> NIL, panic |-> TRUE]
    ELSE [this |-> [this EXCEPT !.avail = minted.heap[minted.first].Next,
                                !.reservedItems = @ + minted.size,
                                !.allocatedItems = @ + 1],
          heap |-> [minted.heap EXCEPT ![minted.first] = Reset(this.factory.kind, @)],
          result |-> minted.first, panic |-> FALSE]

\* memoryAllocator.Allocate on the pool `this` whose items live in `heap`.
memoryAllocator_Allocate(this, heap) ==
    memoryAllocator_Allocate_pop(this, heap, memoryAllocator_Allocate_mint(this, heap))

\* Free that pushes the item but leaves allocatedItems as it was.
memoryAllocator_FreeNoCount(this, heap, item) ==
    IF item = NIL
    THEN [this |-> this, heap |-> heap]
    ELSE [this |-> [this EXCEPT !.avail = item],
          heap |-> [heap EXCEPT ![item].Next = this.avail]]

\* A Free that counts before it looks at the item.
memoryAllocator_FreeNilCounts(this, heap, item) ==
    IF item = NIL
    THEN [this |-> [this EXCEPT !.allocatedItems = @ - 1], heap |-> heap]
    ELSE [this |-> [this EXCEPT !.avail = item, !.allocatedItems = @ - 1],
          heap |-> [heap EXCEPT ![item].Next = this.avail]]

\* A Free that resets the item as it pushes it.
memoryAllocator_FreeReset(this, heap, item) ==
    IF item = NIL
    THEN [this |-> this, heap |-> heap]
    ELSE [this |-> [this EXCEPT !.avail = item, !.allocatedItems = @ - 1],
          heap |-> [heap EXCEPT ![item] =
                       [Reset(this.factory.kind, @) EXCEPT !.Next = this.avail]]]

\* memoryAllocator.Free.
memoryAllocator_Free(this, heap, item) ==
    IF item = NIL
    THEN [this |-> this, heap |-> heap]
    ELSE [this |-> [this EXCEPT !.avail = item, !.allocatedItems = @ - 1],
          heap |-> [heap EXCEPT ![item].Next = this.avail]]

\* memoryAllocator.GetStats.
memoryAllocator_GetStats(this) ==
    [ReservedItems |-> this.reservedItems, AllocatedItems |-> this.allocatedItems]

\* ------------------------------------------------------- buffer / bucket
\* The operators below act on a world w = [buf, bkt, bm]: the heap of
\* buffer_t, the heap of bucket_t and the bufferManager struct `this`.

\* A Buffer that is not a *buffer_t (another implementation of the interface).
ForeignBuffer == -1

\* cap() of the array behind a slice: the owning bucket's make([]byte, BucketSize).
ArrayCap(w, s) == IF s.arr = NIL THEN 0 ELSE w.bkt[s.arr].Buffer.len

\* The world after a call on this.BufferAllocator returned r.
WithBufferAllocator(w, r) == [w EXCEPT !.buf = r.heap, !.bm.BufferAllocator = r.this]

\* buffer_t.End.
End(b) == b.Start + b.Size

\* Cut that moves the start of the remainder but forgets to shrink it.
buffer_CutTailKeepSize(me, size) ==
    [me EXCEPT !.Data = Slice(me.Data, size, me.Data.len),
               !.Start = me.Start + size]

\* The tail buffer_t.Cut leaves in `this` after cutting `size` bytes off its front.
buffer_CutTail(me, size) ==
    [me EXCEPT !.Data = Slice(me.Data, size, me.Data.len),
               !.Start = me.Start + size,
               !.Size = me.Size - size]

\* A cut that hands out the back `size` bytes of `this` and leaves it the front.
buffer_Cut_splitBack(w, this, size, result) ==
    IF ~SliceOk(w.buf[this].Data, 0, size, ArrayCap(w, w.buf[this].Data))
       \/ ~SliceOk(w.buf[this].Data, size, w.buf[this].Data.len, ArrayCap(w, w.buf[this].Data))
    THEN [w |-> w, result |-> NIL, panic |-> TRUE]
    ELSE [w |-> [w EXCEPT !.buf[result].Data =
                              Slice(w.buf[this].Data, w.buf[this].Size - size, w.buf[this].Size),
                          !.buf[result].Start = w.buf[this].Start + w.buf[this].Size - size,
                          !.buf[result].Size = size,
                          !.buf[result].Bucket = w.buf[this].Bucket,
                          !.buf[this].Data = Slice(w.buf[this].Data, 0, w.buf[this].Size - size),
                          !.buf[this].Size = w.buf[this].Size - size],
          result |-> result, panic |-> FALSE]

\* buffer_t.Cut once the pool returned `result`: the front `size` bytes of
\* `this` go to `result`, `this` keeps the tail.
buffer_Cut_split(w, this, size, result) ==
    IF ~SliceOk(w.buf[this].Data, 0, size, ArrayCap(w, w.buf[this].Data))
       \/ ~SliceOk(w.buf[this].Data, size, w.buf[this].Data.len, ArrayCap(w, w.buf[this].Data))
    THEN [w |-> w, result |-> NIL, panic |-> TRUE]
    ELSE [w |-> [w EXCEPT !.buf[result].Data = Slice(w.buf[this].Data, 0, size),
                          !.buf[result].Start = w.buf[this].Start,
                          !.buf[result].Size = size,
                          !.buf[result].Bucket = w.buf[this].Bucket,
                          !.buf[this] = buffer_CutTail(w.buf[this], size)],
          result |-> result, panic |-> FALSE]
buffer_Cut_minted(w, this, size, a) ==
    IF a.panic
    THEN [w |-> w, result |-> NIL, panic |-> TRUE]
    ELSE buffer_Cut_split(WithBufferAllocator(w, a), this, size, a.result)
\* buffer_t.Cut.
buffer_Cut(w, this, size) ==
    IF size = w.buf[this].Size
    THEN [w |-> w, result |-> this, panic |-> FALSE]
    ELSE buffer_Cut_minted(w, this, size,
                           memoryAllocator_Allocate(w.bm.BufferAllocator, w.buf))

\* MergableWith that only sees a free buffer ending where this one starts.
MergableWithOneSided(this, other) == this.Start = End(other)

\* buffer_t.MergableWith.
MergableWith(this, other) == this.Start = End(other) \/ End(this) = other.Start

\* Merge that keeps its own start when the other buffer lies before it.
buffer_MergeKeepStart(w, this, other) ==
    [this EXCEPT !.Data = Slice(w.bkt[this.Bucket].Buffer, this.Start,
                                this.Start + this.Size + other.Size),
                 !.Size = this.Size + other.Size]

\* A Merge that updates the range and keeps the old view.
buffer_MergeKeepData(w, this, other) ==
    [this EXCEPT !.Start = IF other.Start < this.Start THEN other.Start ELSE this.Start,
                 !.Size = this.Size + other.Size]

\* The start of the merged range: the smaller of the two starts.
buffer_Merge_newStart(this, other) ==
    IF other.Start < this.Start THEN other.Start ELSE this.Start
\* buffer_t.Merge: the fields of `this` after merging `other` into it.
buffer_Merge(w, this, other) ==
    [this EXCEPT !.Data = Slice(w.bkt[this.Bucket].Buffer,
                                buffer_Merge_newStart(this, other),
                                buffer_Merge_newStart(this, other) + this.Size + other.Size),
                 !.Start = buffer_Merge_newStart(this, other),
                 !.Size = this.Size + other.Size]
\* Merge panics when the new range is no slice of the bucket's Buffer.
buffer_MergeOk(w, this, other) ==
    /\ this.Bucket # NIL
    /\ SliceOk(w.bkt[this.Bucket].Buffer,
               buffer_Merge_newStart(this, other),
               buffer_Merge_newStart(this, other) + this.Size + other.Size,
               w.bkt[this.Bucket].Buffer.len)

\* The free-list entry p points at: p is &this.FreeBuffers when prev is nil,
\* &prev.Next otherwise.
FreeAt(w, this, prev) == IF prev = NIL THEN w.bkt[this].FreeBuffers ELSE w.buf[prev].Next
\* An unlink that leaves the entry on the list.
UnlinkFreeAtKeep(w, this, prev) == w

\* *p = (*p).Next.
UnlinkFreeAt(w, this, prev) ==
    IF prev = NIL
    THEN [w EXCEPT !.bkt[this].FreeBuffers = w.buf[FreeAt(w, this, prev)].Next]
    ELSE [w EXCEPT !.buf[prev].Next = w.buf[FreeAt(w, this, prev)].Next]

\* A scan that unlinks an entry of exactly `size` wherever it is on the list,
\* and cuts the first larger entry only when there is none.
RECURSIVE bucket_Allocate_scanExact(_, _, _, _)
bucket_Allocate_scanExact(w, this, prev, size) ==
    IF FreeAt(w, this, prev) = NIL
    THEN [w |-> w, result |-> NIL, panic |-> FALSE]
    ELSE IF w.buf[FreeAt(w, this, prev)].Size = size
         THEN [w |-> UnlinkFreeAt(w, this, prev),
               result |-> FreeAt(w, this, prev), panic |-> FALSE]
         ELSE bucket_Allocate_scanExact(w, this, FreeAt(w, this, prev), size)
RECURSIVE bucket_Allocate_scanLarger(_, _, _, _)
bucket_Allocate_scanLarger(w, this, prev, size) ==
    IF FreeAt(w, this, prev) = NIL
    THEN [w |-> w, result |-> NIL, panic |-> FALSE]
    ELSE IF w.buf[FreeAt(w, this, prev)].Size > size
         THEN buffer_Cut(w, FreeAt(w, this, prev), size)
         ELSE bucket_Allocate_scanLarger(w, this, FreeAt(w, this, prev), size)
bucket_Allocate_scanBestFit(w, this, prev, size) ==
    IF bucket_Allocate_scanExact(w, this, prev, size).result # NIL
    THEN bucket_Allocate_scanExact(w, this, prev, size)
    ELSE bucket_Allocate_scanLarger(w, this, prev, size)

\* bucket_t.Allocate: first-fit scan of the free list.
RECURSIVE bucket_Allocate_scan(_, _, _, _)
bucket_Allocate_scan(w, this, prev, size) ==
    IF FreeAt(w, this, prev) = NIL
    THEN [w |-> w, result |-> NIL, panic |-> FALSE]
    ELSE IF w.buf[FreeAt(w, this, prev)].Size = size
         THEN [w |-> UnlinkFreeAt(w, this, prev),
               result |-> FreeAt(w, this, prev), panic |-> FALSE]
         ELSE IF w.buf[FreeAt(w, this, prev)].Size > size
              THEN buffer_Cut(w, FreeAt(w, this, prev), size)
              ELSE bucket_Allocate_scan(w, this, FreeAt(w, this, prev), size)
bucket_Allocate(w, this, size) == bucket_Allocate_scan(w, this, NIL, size)

\* A merge that leaves the merged entry on the free list.
bucket_Release_mergeKeep(w, this, buffer, prev, buf) ==
    [w EXCEPT !.buf[buffer] = buffer_Merge(w, @, w.buf[buf])]

\* A merge that unlinks the merged entry and never gives it back to the pool.
bucket_Release_mergeLeak(w, this, buffer, prev, buf) ==
    UnlinkFreeAt([w EXCEPT !.buf[buffer] = buffer_Merge(w, @, w.buf[buf])], this, prev)

\* bucket_t.Release, one merge: grow `buffer`, unlink *p, give it to the pool.
bucket_Release_merge(w, this, buffer, prev, buf) ==
    WithBufferAllocator(
        UnlinkFreeAt([w EXCEPT !.buf[buffer] = buffer_Merge(w, @, w.buf[buf])], this, prev),
        memoryAllocator_Free(w.bm.BufferAllocator,
            UnlinkFreeAt([w EXCEPT !.buf[buffer] = buffer_Merge(w, @, w.buf[buf])],
                         this, prev).buf,
            buf))

\* bucket_t.Release, the loop: merge `buffer` with every adjacent free buffer,
\* restarting the scan after each merge.
RECURSIVE bucket_Release_scan(_, _, _, _)
bucket_Release_scan(w, this, buffer, prev) ==
    IF FreeAt(w, this, prev) = NIL
    THEN [w |-> w, panic |-> FALSE]
    ELSE IF MergableWith(w.buf[buffer], w.buf[FreeAt(w, this, prev)])
         THEN IF ~buffer_MergeOk(w, w.buf[buffer], w.buf[FreeAt(w, this, prev)])
              THEN [w |-> w, panic |-> TRUE]
              ELSE bucket_Release_scan(
                       bucket_Release_merge(w, this, buffer, prev, FreeAt(w, this, prev)),
                       this, buffer, NIL)
         ELSE bucket_Release_scan(w, this, buffer, FreeAt(w, this, prev))
\* A Release that forgets to put `buffer` on the free list.
bucket_Release_drop(s, this, buffer) == s

\* bucket_t.Release, after the loop: push `buffer` on the free list.
bucket_Release_push(s, this, buffer) ==
    IF s.panic
    THEN s
    ELSE [w |-> [s.w EXCEPT !.buf[buffer].Next = s.w.bkt[this].FreeBuffers,
                            !.bkt[this].FreeBuffers = buffer],
          panic |-> FALSE]
\* bucket_t.Release.
bucket_Release(w, this, buffer) ==
    IF w.bkt[this].FreeBuffers = NIL
    THEN [w |-> [w EXCEPT !.bkt[this].FreeBuffers = buffer, !.buf[buffer].Next = NIL],
          panic |-> FALSE]
    ELSE bucket_Release_push(bucket_Release_scan(w, this, buffer, NIL), this, buffer)

\* --------------------------------------------------------- buffer manager
\* NewBufferManager / bufferManager.initialize.
NewBufferManager(bucketSize, bucketAllocatorBurst, bufferAllocatorBurst) ==
    [BufferAllocator |-> NewAllocator(bufferAllocatorBurst, [kind |-> "buffer", mode |-> "exact"]).result,
     BucketAllocator |-> NewAllocator(bucketAllocatorBurst, [kind |-> "bucket", mode |-> "exact"]).result,
     Buckets |-> NIL,
     BucketSize |-> bucketSize,
     ReservedBuckets |-> 0,
     ReservedBytes |-> 0,
     AvailableBuckets |-> 0,
     AllocatedBuffers |-> 0,
     AllocatedBytes |-> 0,
     TotalAllocatedBuffers |-> 0,
     TotalAllocatedBytes |-> 0]

\* A createBucket that counts the bucket and not its bytes.
createBucket_initNoBytes(w, newBucket, b) ==
    IF b.panic
    THEN [w |-> w, newBucket |-> NIL, panic |-> TRUE]
    ELSE [w |-> [w EXCEPT
                   !.buf = [b.heap EXCEPT
                              ![b.result].Bucket = newBucket,
                              ![b.result].Data = w.bkt[newBucket].Buffer,
                              ![b.result].Size = w.bm.BucketSize,
                              ![b.result].Start = 0],
                   !.bm.BufferAllocator = b.this,
                   !.bkt[newBucket].FreeBuffers = b.result,
                   !.bm.ReservedBuckets = @ + 1],
          newBucket |-> newBucket, panic |-> FALSE]

\* bufferManager.createBucket, last part: the new bucket's single free buffer
\* b.result spans the whole backing storage; the reserved counters grow.
createBucket_init(w, newBucket, b) ==
    IF b.panic
    THEN [w |-> w, newBucket |-> NIL, panic |-> TRUE]
    ELSE [w |-> [w EXCEPT
                   !.buf = [b.heap EXCEPT
                              ![b.result].Bucket = newBucket,
                              ![b.result].Data = w.bkt[newBucket].Buffer,
                              ![b.result].Size = w.bm.BucketSize,
                              ![b.result].Start = 0],
                   !.bm.BufferAllocator = b.this,
                   !.bkt[newBucket].FreeBuffers = b.result,
                   !.bm.ReservedBuckets = @ + 1,
                   !.bm.ReservedBytes = @ + w.bm.BucketSize],
          newBucket |-> newBucket, panic |-> FALSE]
\* createBucket, middle part: the bucket item a.result gets its backing storage.
createBucket_storage(w, a) ==
    IF a.panic
    THEN [w |-> w, newBucket |-> NIL, panic |-> TRUE]
    ELSE createBucket_init(
             [w EXCEPT !.bkt = [a.heap EXCEPT ![a.result].Buffer =
                                   [arr |-> a.result, off |-> 0, len |-> w.bm.BucketSize]],
                       !.bm.BucketAllocator = a.this],
             a.result,
             memoryAllocator_Allocate(w.bm.BufferAllocator, w.buf))
\* bufferManager.createBucket.
createBucket(w) ==
    createBucket_storage(w, memoryAllocator_Allocate(w.bm.BucketAllocator, w.bkt))

\* The bucket pbucket points at: pbucket is &this.Buckets when prev is nil,
\* &prev.Next otherwise.
BucketAt(w, prev) == IF prev = NIL THEN w.bm.Buckets ELSE w.bkt[prev].Next

\* A try_remove_bucket that unlinks the bucket and leaves the count alone.
try_remove_bucketNoCount(w, prev) ==
    IF w.bkt[BucketAt(w, prev)].FreeBuffers = NIL
    THEN IF prev = NIL
         THEN [w EXCEPT !.bm.Buckets = w.bkt[BucketAt(w, prev)].Next,
                        !.bkt[BucketAt(w, prev)].Next = sentry_bucket]
         ELSE [w EXCEPT !.bkt[prev].Next = w.bkt[BucketAt(w, prev)].Next,
                        !.bkt[BucketAt(w, prev)].Next = sentry_bucket]
    ELSE w

\* bufferManager.try_remove_bucket.
try_remove_bucket(w, prev) ==
    IF w.bkt[BucketAt(w, prev)].FreeBuffers = NIL
    THEN IF prev = NIL
         THEN [w EXCEPT !.bm.AvailableBuckets = @ - 1,
                        !.bm.Buckets = w.bkt[BucketAt(w, prev)].Next,
                        !.bkt[BucketAt(w, prev)].Next = sentry_bucket]
         ELSE [w EXCEPT !.bm.AvailableBuckets = @ - 1,
                        !.bkt[prev].Next = w.bkt[BucketAt(w, prev)].Next,
                        !.bkt[BucketAt(w, prev)].Next = sentry_bucket]
    ELSE w

\* try_insert_bucket that does not mark a fully consumed new bucket as detached.
try_insert_bucketNoSentry(w, bucket) ==
    IF w.bkt[bucket].FreeBuffers # NIL
    THEN [w EXCEPT !.bm.AvailableBuckets = @ + 1,
                   !.bkt[bucket].Next = w.bm.Buckets,
                   !.bm.Buckets = bucket]
    ELSE w

\* bufferManager.try_insert_bucket.
try_insert_bucket(w, bucket) ==
    IF w.bkt[bucket].FreeBuffers # NIL
    THEN [w EXCEPT !.bm.AvailableBuckets = @ + 1,
                   !.bkt[bucket].Next = w.bm.Buckets,
                   !.bm.Buckets = bucket]
    ELSE [w EXCEPT !.bkt[bucket].Next = sentry_bucket]

\* bufferManager.do_allocate, the loop over this.Buckets: r is what the bucket
\* at pbucket answered.
RECURSIVE do_allocate_scan(_, _, _)
RECURSIVE do_allocate_scan_tried(_, _, _, _)
do_allocate_scan_tried(w, prev, size, r) ==
    IF r.panic
    THEN [found |-> TRUE, w |-> r.w, result |-> NIL, panic |-> TRUE]
    ELSE IF r.result # NIL
         THEN [found |-> TRUE, w |-> try_remove_bucket(r.w, prev),
               result |-> r.result, panic |-> FALSE]
         ELSE do_allocate_scan(r.w, BucketAt(w, prev), size)
do_allocate_scan(w, prev, size) ==
    IF BucketAt(w, prev) = NIL
    THEN [found |-> FALSE, w |-> w, result |-> NIL, panic |-> FALSE]
    ELSE do_allocate_scan_tried(w, prev, size, bucket_Allocate(w, BucketAt(w, prev), size))

\* do_allocate after the loop found nothing: the new bucket serves the request
\* and is listed if it still has free space.
do_allocate_retry(newBucket, r) ==
    IF r.panic
    THEN [w |-> r.w, result |-> NIL, panic |-> TRUE]
    ELSE [w |-> try_insert_bucket(r.w, newBucket), result |-> r.result, panic |-> FALSE]

\* A new-bucket path that lists the bucket but returns the loop's nil buffer.
do_allocate_newNoRetry(size, c) ==
    IF c.panic
    THEN [w |-> c.w, result |-> NIL, panic |-> TRUE]
    ELSE [w |-> try_insert_bucket(c.w, c.newBucket), result |-> NIL, panic |-> FALSE]

do_allocate_new(size, c) ==
    IF c.panic
    THEN [w |-> c.w, result |-> NIL, panic |-> TRUE]
    ELSE do_allocate_retry(c.newBucket, bucket_Allocate(c.w, c.newBucket, size))
\* A do_allocate that takes a new bucket whatever the loop found.
do_allocate_growAlways(size, s) == do_allocate_new(size, createBucket(s.w))

do_allocate_grow(size, s) ==
    IF s.found
    THEN [w |-> s.w, result |-> s.result, panic |-> s.panic]
    ELSE do_allocate_new(size, createBucket(s.w))
\* bufferManager.do_allocate.
do_allocate(w, size) == do_allocate_grow(size, do_allocate_scan(w, NIL, size))

\* A size check that lets a request one byte past the bucket size through.
OversizeOffByOne(w, size) == size > w.bm.BucketSize + 1

\* The size check of bufferManager.Allocate: a buffer never spans buckets.
Oversize(w, size) == size > w.bm.BucketSize

\* bufferManager.Allocate after do_allocate returned d: the counters, then
\* buffer.Next = nil (a nil buffer panics there).
bufferManager_Allocate_count(size, d) ==
    IF d.panic
    THEN [w |-> d.w, result |-> NIL, panic |-> TRUE]
    ELSE IF d.result = NIL
         THEN [w |-> [d.w EXCEPT !.bm.AllocatedBuffers = @ + 1,
                                 !.bm.TotalAllocatedBuffers = @ + 1,
                                 !.bm.AllocatedBytes = @ + size,
                                 !.bm.TotalAllocatedBytes = @ + size],
               result |-> NIL, panic |-> TRUE]
         ELSE [w |-> [d.w EXCEPT !.bm.AllocatedBuffers = @ + 1,
                                 !.bm.TotalAllocatedBuffers = @ + 1,
                                 !.bm.AllocatedBytes = @ + size,
                                 !.bm.TotalAllocatedBytes = @ + size,
                                 !.buf[d.result].Next = NIL],
               result |-> d.result, panic |-> FALSE]
\* bufferManager.Allocate.
bufferManager_Allocate(w, size) ==
    IF Oversize(w, size)
    THEN [w |-> w, result |-> NIL, panic |-> FALSE]
    ELSE bufferManager_Allocate_count(size, do_allocate(w, size))

\* A Free that never puts a detached bucket back.
bufferManager_Free_noReattach(bucket, r) == r

\* A reattach that lists the bucket without counting it as available.
bufferManager_Free_reattachNoCount(bucket, r) ==
    IF r.panic
    THEN r
    ELSE IF r.w.bkt[bucket].Next = sentry_bucket
         THEN [w |-> [r.w EXCEPT !.bkt[bucket].Next = r.w.bm.Buckets,
                                 !.bm.Buckets = bucket],
               panic |-> FALSE]
         ELSE [w |-> r.w, panic |-> FALSE]

\* bufferManager.Free after Release returned r: a detached bucket goes back to
\* the head of this.Buckets.
bufferManager_Free_reattach(bucket, r) ==
    IF r.panic
    THEN r
    ELSE IF r.w.bkt[bucket].Next = sentry_bucket
         THEN [w |-> [r.w EXCEPT !.bm.AvailableBuckets = @ + 1,
                                 !.bkt[bucket].Next = r.w.bm.Buckets,
                                 !.bm.Buckets = bucket],
               panic |-> FALSE]
         ELSE [w |-> r.w, panic |-> FALSE]
\* A Free that counts the buffer but not its bytes.
bufferManager_Free_countBuffersOnly(w, buffer) ==
    [w EXCEPT !.bm.AllocatedBuffers = @ - 1]

\* The allocated counters of bufferManager.Free.
bufferManager_Free_count(w, buffer) ==
    [w EXCEPT !.bm.AllocatedBuffers = @ - 1,
              !.bm.AllocatedBytes = @ - w.buf[buffer].Size]
\* bufferManager.Free.
bufferManager_Free(w, buffer) ==
    IF buffer = NIL
    THEN [w |-> w, panic |-> FALSE]
    ELSE IF buffer = ForeignBuffer
         THEN [w |-> w, panic |-> TRUE]
         ELSE IF w.buf[buffer].Bucket = NIL
              THEN [w |-> bufferManager_Free_count(w, buffer), panic |-> TRUE]
              ELSE bufferManager_Free_reattach(
                       w.buf[buffer].Bucket,
                       bucket_Release(bufferManager_Free_count(w, buffer),
                                      w.buf[buffer].Bucket, buffer))

\* bufferManager.GetStats.
bufferManager_GetStats(w) ==
    [ReservedBuckets |-> w.bm.ReservedBuckets,
     ReservedBytes |-> w.bm.ReservedBytes,
     AvailableBuckets |-> w.bm.AvailableBuckets,
     AllocatedBuffers |-> w.bm.AllocatedBuffers,
     AllocatedBytes |-> w.bm.AllocatedBytes,
     TotalAllocatedBuffers |-> w.bm.TotalAllocatedBuffers,
     TotalAllocatedBytes |-> w.bm.TotalAllocatedBytes,
     BufferAllocatorStats |-> memoryAllocator_GetStats(w.bm.BufferAllocator),
     BucketAllocatorStats |-> memoryAllocator_GetStats(w.bm.BucketAllocator)]

\* ------------------------------------------------------ errors, services
\* error values: nil, the two sentinels, some other failure, and the wrappers
\* of src/error.go.
ErrNil == [kind |-> "nil"]
ErrServiceStopped == [kind |-> "StringError", text |-> "Service is stopped"]
http_ErrServerClosed == [kind |-> "errorString", text |-> "http: Server closed"]
ErrOther == [kind |-> "errorString", text |-> "boom"]
ComponentError(component, failure) ==
    [kind |-> "ComponentError", Component |-> component, Failure |-> failure]
AggregateError(errs) == [kind |-> "AggregateError", Errors |-> errs]

\* errors.Is compares by identity only.
errors_IsShallow(err, target) == err = target

\* errors.Is(err, target): err == target, or err's Is method accepts target,
\* or the same for what err unwraps to. ComponentError.Is and Unwrap both go
\* to Failure; AggregateError.Is asks every entry and has no Unwrap.
RECURSIVE errors_Is(_, _)
errors_Is(err, target) ==
    IF err = ErrNil THEN target = ErrNil
    ELSE IF err = target THEN TRUE
    ELSE IF err.kind = "ComponentError" THEN errors_Is(err.Failure, target)
    ELSE IF err.kind = "AggregateError"
         THEN \E i \in 1..Len(err.Errors) : errors_Is(err.Errors[i], target)
    ELSE FALSE

IsServiceStoppedError(err) ==
    \/ err = ErrNil
    \/ errors_Is(err, ErrServiceStopped)
    \/ errors_Is(err, http_ErrServerClosed)

getServiceResult(err) ==
    IF err = ErrNil THEN ErrNil
    ELSE IF IsServiceStoppedError(err) THEN ErrNil
    ELSE err

\* AggregateErrorBuilder: AddError drops nil, GetError returns nil, the single
\* error, or the AggregateError.
AggregateErrorBuilder_AddError(errs, err) ==
    IF err # ErrNil THEN Append(errs, err) ELSE errs
AggregateErrorBuilder_GetError(errs) ==
    IF Len(errs) = 0 THEN ErrNil
    ELSE IF Len(errs) = 1 THEN errs[1]
    ELSE AggregateError(errs)

\* mergedService.Run: results[i] is what the i-th service to finish returned
\* from Run; every failure is wrapped in a ComponentError and collected.
RECURSIVE mergedService_Run_collect(_, _, _)
mergedService_Run_collect(results, i, errs) ==
    IF i > Len(results) THEN AggregateErrorBuilder_GetError(errs)
    ELSE mergedService_Run_collect(results, i + 1,
            AggregateErrorBuilder_AddError(errs,
                IF results[i] # ErrNil THEN ComponentError(i, results[i]) ELSE ErrNil))
mergedService_Run(results) == mergedService_Run_collect(results, 1, <<>>)

\* What Run of a plain Service may return, and what Run of the Service that
\* MergeServices builds from 2..MaxMerged plain services may return.
PlainRunResults == {ErrNil, ErrServiceStopped, http_ErrServerClosed, ErrOther}
RunResults ==
    PlainRunResults \cup
    UNION {{mergedService_Run(results) : results \in [1..n -> PlainRunResults]} :
              n \in 2..MaxMerged}

\* The runner goroutine sends the result once without a stopRequested channel
\* and twice with one; the channel is made with that capacity.
ResultSendsOnce(stopRequested) == 1
ResultSends(stopRequested) == IF stopRequested = "nil" THEN 1 ELSE 2
StoppedCap(stopRequested) == IF stopRequested = "nil" THEN 1 ELSE 2

\* ------------------------------------------------------------------ state
VARIABLES
    buffers,    \* the heap of buffer_t items minted by the buffer pool
    buckets,    \* the heap of bucket_t items minted by the bucket pool
    bm,         \* the bufferManager struct (with its two memoryAllocators)
    held,       \* buffers returned by Allocate and not yet passed to Free
    last,       \* the last call: [op, arg, result, panic]
    drained,    \* history: buckets whose whole capacity was handed out in positive sizes
    ma,         \* a stand-alone memoryAllocator
    items,      \* the heap of items minted by ma
    out,        \* items returned by ma.Allocate and not yet passed to ma.Free
    calls,      \* history of ma: [alloc, free, mixed]
    Lock,       \* syncBufferManager.Lock: nil, or the caller that holds it
    lock,       \* synchedMemoryAllocator.lock: nil, or the caller that holds it
    pc,         \* per caller: the wrapper call it is in, [at, obj, op, arg, snap]
    net,        \* history of the synchronized calls: [buffers, bytes, panics]
    shared,     \* the object the callers share: the wrapper "bm" or "ma", the plain
                \* "bufferManager" or "memoryAllocator", or "none"
    peer,       \* a second bufferManager and the buffers it handed out: [bm, held]
    svc,        \* one ExecuteServiceAsync / RunService call and its goroutines
    rel,        \* a bucket_t.Release under way: [at, buffer, bucket, prev, merges, entries]
    sig         \* one SignalWhenAllErr / SignalWhenAnyErr call, its channels and goroutines

mgrVars == <<buffers, buckets, bm, held, drained>>
poolVars == <<ma, items, out, calls>>
syncVars == <<Lock, lock, pc, net, shared>>
vars == <<buffers, buckets, bm, held, last, drained, ma, items, out, calls,
          Lock, lock, pc, net, shared, peer, svc, rel, sig>>

\* The world the manager's operators act on, and its write-back.
World == [buf |-> buffers, bkt |-> buckets, bm |-> bm]
SetWorld(w) == buffers' = w.buf /\ buckets' = w.bkt /\ bm' = w.bm

NoCall == [op |-> "none", arg |-> 0, result |-> NIL, panic |-> FALSE]

Callers == 1..NCallers
NoSnap == [none |-> TRUE]
Idle == [at |-> "idle", obj |-> "none", op |-> "none", arg |-> 0, snap |-> NoSnap]
\* No synchronized call is under way.
SyncIdle ==
    /\ Lock = NIL
    /\ lock = NIL
    /\ pc = [p \in Callers |-> Idle]
    /\ net = [buffers |-> 0, bytes |-> 0, panics |-> FALSE]

\* No wrapper was constructed.
SyncNone == SyncIdle /\ shared = "none"

\* No second manager was constructed.
NoPeer == [bm |-> NIL, held |-> {}]
\* The service is not a merged one: per component the position of its
\* goroutine (cpc) and what its Run returned (cres); resultChannel, the error
\* builder's list and the number of results Run has collected.
NoMerged ==
    [n |-> 0, cpc |-> <<>>, cres |-> <<>>, resultChannel |-> <<>>,
     errs |-> <<>>, got |-> 0]
\* No service call: the stop channel, the result channel (cap, buffered
\* values), the three goroutines' positions, what Run and the caller got, and
\* whether and how often Shutdown (Stop) was called.
NoService ==
    [api |-> "none", stopRequested |-> "nil", cap |-> 0, stopped |-> <<>>,
     runner |-> "none", sends |-> 0, err |-> ErrNil, runReturned |-> FALSE,
     runResult |-> ErrNil, watcher |-> "none", shutdown |-> FALSE, shutdowns |-> 0,
     caller |-> "idle", result |-> ErrNil, merged |-> NoMerged]

\* No Release is under way: the loop's position (prev is the free buffer before
\* *p, nil at the head), the merges done and the entries the list started with.
NoRelease ==
    [at |-> "idle", buffer |-> NIL, bucket |-> NIL, prev |-> NIL,
     merges |-> 0, entries |-> 0]

\* No SignalWhen...Err call: per input channel whether a value waits on it
\* (ready, val) or was received (taken); per goroutine its position (wpc) and
\* the err it holds (werr); mu, errors, wg, waiter, result of SignalWhenAllErr;
\* done, closes of SignalWhenAnyErr; what the consumer received; a panic.
NoSignal ==
    [fn |-> "none", n |-> 0, ready |-> {}, taken |-> {}, val |-> <<>>,
     wpc |-> <<>>, werr |-> <<>>,
     mu |-> NIL, errors |-> <<>>, wg |-> 0, waiter |-> "none", result |-> <<>>,
     done |-> "open", closes |-> 0,
     received |-> <<>>, takenAtReceive |-> {}, panic |-> FALSE]

\* ------------------------------------------------- views used by the claims
RECURSIVE ListFrom(_, _)
\* The ids linked from `head` through Next in `heap` (nil or the sentinel ends it).
ListFrom(heap, head) ==
    IF head = NIL \/ head = sentry_bucket THEN <<>>
    ELSE <<head>> \o ListFrom(heap, heap[head].Next)
Range(s) == {s[i] : i \in DOMAIN s}
\* A bucket is reserved once createBucket gave it its backing storage.
ReservedBucketIds == {k \in DOMAIN buckets : buckets[k].Buffer.arr # NIL}
FreeList(k) == ListFrom(buffers, buckets[k].FreeBuffers)
InUse(k) == {b \in held : buffers[b].Bucket = k}
BucketList == ListFrom(buckets, bm.Buckets)
Bytes(b) == buffers[b].Start .. (buffers[b].Start + buffers[b].Size - 1)
\* Whole capacity of bucket k handed out, in buffers of positive size.
FullyOut(bufs, bkts, inuse, k) ==
    /\ bkts[k].FreeBuffers = NIL
    /\ \A b \in inuse : bufs[b].Bucket = k => bufs[b].Size > 0

\* ---------------------------------------------- buffer manager, one caller
MgrInit ==
    /\ buffers = <<>>
    /\ buckets = <<>>
    /\ \E bucketSize \in 1..MaxBucketSize, bucketBurst \in MgrBursts,
          bufferBurst \in MgrBursts :
          bm = NewBufferManager(bucketSize, bucketBurst, bufferBurst)
    /\ held = {}
    /\ drained = {}

PoolIdle ==
    /\ ma = NewAllocator(1, [kind |-> "item", mode |-> "exact"]).result
    /\ items = <<>>
    /\ out = {}
    /\ calls = [alloc |-> 0, free |-> 0, mixed |-> FALSE]

Init == MgrInit /\ PoolIdle /\ SyncNone /\ peer = NoPeer /\ svc = NoService /\ rel = NoRelease /\ sig = NoSignal /\ last = NoCall

\* The caller takes what Allocate(size) returned; the history notes whether the
\* serving bucket is now wholly handed out.
AllocateReturn(size, r) ==
    /\ SetWorld(r.w)
    /\ last' = [op |-> "Allocate", arg |-> size, result |-> r.result, panic |-> r.panic]
    /\ IF r.result = NIL
       THEN UNCHANGED <<sig, rel, svc, held, drained>>
       ELSE /\ held' = held \cup {r.result}
            /\ drained' = IF FullyOut(r.w.buf, r.w.bkt, held \cup {r.result},
                                      r.w.buf[r.result].Bucket)
                          THEN drained \cup {r.w.buf[r.result].Bucket}
                          ELSE drained \ {r.w.buf[r.result].Bucket}

\* A caller's Allocate(size); an oversize request is one past BucketSize.
Allocate(size) ==
    /\ size > bm.BucketSize \/ bm.TotalAllocatedBuffers < MaxTotal
    /\ AllocateReturn(size, bufferManager_Allocate(World, size))
    /\ UNCHANGED <<sig, rel, svc, poolVars, syncVars, peer>>

\* A caller's Free of a buffer it holds.
FreeReturn(b, r) ==
    /\ SetWorld(r.w)
    /\ last' = [op |-> "Free", arg |-> b, result |-> NIL, panic |-> r.panic]
Free(b) ==
    /\ b \in held
    /\ FreeReturn(b, bufferManager_Free(World, b))
    /\ held' = held \ {b}
    /\ UNCHANGED <<sig, rel, svc, drained, poolVars, syncVars, peer>>

Next ==
    \/ \E size \in 0..(MaxBucketSize + 1) : Allocate(size)
    \/ \E b \in held : Free(b)

Spec == Init /\ [][Next]_vars

\* -------------------------------------------- stand-alone pool, one caller
MgrIdle ==
    /\ buffers = <<>>
    /\ buckets = <<>>
    /\ bm = NewBufferManager(1, 1, 1)
    /\ held = {}
    /\ drained = {}

PoolInit ==
    /\ \E burstSize \in 0..MaxBurst, mode \in {"exact", "extra"} :
          ma = NewAllocator(burstSize, [kind |-> "item", mode |-> mode]).result
    /\ items = <<>>
    /\ out = {}
    /\ calls = [alloc |-> 0, free |-> 0, mixed |-> FALSE]

\* A caller's ma.Allocate(); a panic leaves the caller without an item.
PoolAllocateReturn(r) ==
    /\ ma' = r.this
    /\ items' = r.heap
    /\ out' = IF r.panic THEN out ELSE out \cup {r.result}
    /\ calls' = IF r.panic THEN calls
                ELSE [calls EXCEPT !.alloc = @ + 1, !.mixed = @ \/ calls.free > 0]
    /\ last' = [op |-> "PoolAllocate", arg |-> 0, result |-> r.result, panic |-> r.panic]
PoolAllocate ==
    /\ calls.alloc < MaxPoolAllocs
    /\ PoolAllocateReturn(memoryAllocator_Allocate(ma, items))
    /\ UNCHANGED <<sig, rel, svc, mgrVars, syncVars, peer>>

\* A caller's ma.Free(item) of an item it has checked out.
PoolFree(item) ==
    /\ item \in out
    /\ ma' = memoryAllocator_Free(ma, items, item).this
    /\ items' = memoryAllocator_Free(ma, items, item).heap
    /\ out' = out \ {item}
    /\ calls' = [calls EXCEPT !.free = @ + 1]
    /\ last' = [op |-> "PoolFree", arg |-> item, result |-> NIL, panic |-> FALSE]
    /\ UNCHANGED <<sig, rel, svc, mgrVars, syncVars, peer>>

\* The ways a factory breaks its contract.
FaultModes == {"nil", "empty", "nilFirst", "nilLast"}

\* A caller's ma.Allocate() that finds the free list empty, on a call in which
\* the factory breaks its contract in the given way.
PoolAllocateFaultyReturn(r) ==
    /\ ma' = [r.this EXCEPT !.factory = ma.factory]
    /\ items' = r.heap
    /\ out' = IF r.panic THEN out ELSE out \cup {r.result}
    /\ calls' = IF r.panic THEN calls
                ELSE [calls EXCEPT !.alloc = @ + 1, !.mixed = @ \/ calls.free > 0]
    /\ last' = [op |-> "PoolAllocateFaulty", arg |-> 0, result |-> r.result,
                panic |-> r.panic]
PoolAllocateFaulty(mode) ==
    /\ ma.avail = NIL
    /\ calls.alloc < MaxPoolAllocs
    /\ PoolAllocateFaultyReturn(
           memoryAllocator_Allocate([ma EXCEPT !.factory.mode = mode], items))
    /\ UNCHANGED <<sig, rel, svc, mgrVars, syncVars, peer>>

PoolNext ==
    \/ PoolAllocate
    \/ \E item \in out : PoolFree(item)
    \/ \E mode \in FaultModes : PoolAllocateFaulty(mode)

PoolSpecInit == MgrIdle /\ PoolInit /\ SyncNone /\ peer = NoPeer /\ svc = NoService /\ rel = NoRelease /\ sig = NoSignal /\ last = NoCall

PoolSpec == PoolSpecInit /\ [][PoolNext]_vars

\* ------------------------------------ synchronized wrappers, NCallers callers
\* A call of a wrapper is two steps. Enter: Lock() returns to the caller and the
\* body reads the state it works on (snap); a caller that waits in Lock() does
\* nothing, so its call starts here. Body: the body writes its result, the
\* deferred Unlock() runs and the call returns or panics.

\* A mutex that any caller may take at any time.
MutexCanLockAlways(m) == TRUE

\* sync.Mutex.Lock returns only while no one holds the mutex.
MutexCanLock(m) == m = NIL

\* An Unlock written after the body instead of deferred: skipped by a panic.
UnlockAfterBody(m, panicked) == IF panicked THEN m ELSE NIL

\* defer this.Lock.Unlock(): runs when the body returns and when it panics.
DeferredUnlock(m, panicked) == NIL

InCall(obj) == {p \in Callers : pc[p].at = "body" /\ pc[p].obj = obj}

\* NewSynchedBufferManager(bucketSize, 1, 1)
SyncMgrInit ==
    /\ buffers = <<>>
    /\ buckets = <<>>
    /\ \E bucketSize \in 1..MaxSyncBucketSize :
          bm = NewBufferManager(bucketSize, 1, 1)
    /\ held = {}
    /\ drained = {}

\* NewSynchedAllocator(burstSize, factory)
SyncPoolInit ==
    /\ \E burstSize \in SyncBursts :
          ma = NewSynchedAllocator(burstSize, [kind |-> "item", mode |-> "exact"])
                   .result.memoryAllocator
    /\ items = <<>>
    /\ out = {}
    /\ calls = [alloc |-> 0, free |-> 0, mixed |-> FALSE]

\* The callers share one wrapper: the two kinds have no state in common, so a
\* behaviour exercises one of them.
SyncInit ==
    /\ shared \in {"bm", "ma"}
    /\ IF shared = "bm" THEN SyncMgrInit /\ PoolIdle ELSE MgrIdle /\ SyncPoolInit
    /\ SyncIdle
    /\ peer = NoPeer
    /\ svc = NoService /\ rel = NoRelease /\ sig = NoSignal
    /\ last = NoCall

\* syncBufferManager: this.Lock.Lock() returns to caller p, the body of op(arg)
\* starts on the state it finds.
SyncEnter(p, op, arg) ==
    /\ shared = "bm"
    /\ pc[p].at = "idle"
    /\ MutexCanLock(Lock)
    /\ Lock' = p
    /\ pc' = [pc EXCEPT ![p] = [at |-> "body", obj |-> "bm", op |-> op, arg |-> arg,
                                 snap |-> World]]
    /\ UNCHANGED <<sig, rel, svc, buffers, buckets, bm, drained, last, poolVars, lock, net, shared, peer>>

SyncAllocateEnter(p, size) ==
    /\ size > bm.BucketSize \/ bm.TotalAllocatedBuffers < MaxSyncTotal
    /\ SyncEnter(p, "Allocate", size)
    /\ UNCHANGED held
\* The caller gives up the buffer it passes to Free.
SyncFreeEnter(p, b) ==
    /\ b \in held \cup {NIL, ForeignBuffer}
    /\ SyncEnter(p, "Free", b)
    /\ held' = held \ {b}
SyncGetStatsEnter(p) ==
    /\ SyncEnter(p, "GetStats", 0)
    /\ UNCHANGED held

\* The body of p's call ends: its writes land, the deferred Unlock runs.
SyncLeave(p, panicked) ==
    /\ Lock' = DeferredUnlock(Lock, panicked)
    /\ pc' = [pc EXCEPT ![p] = Idle]
    /\ UNCHANGED <<sig, rel, svc, drained, last, poolVars, lock, shared, peer>>

SyncAllocateReturn(p, r) ==
    /\ SetWorld(r.w)
    /\ SyncLeave(p, r.panic)
    /\ held' = IF r.result = NIL THEN held ELSE held \cup {r.result}
    /\ net' = IF r.result = NIL THEN [net EXCEPT !.panics = @ \/ r.panic]
              ELSE [net EXCEPT !.buffers = @ + 1, !.bytes = @ + pc[p].arg]
SyncAllocateBody(p) ==
    /\ pc[p].at = "body" /\ pc[p].obj = "bm" /\ pc[p].op = "Allocate"
    /\ SyncAllocateReturn(p, bufferManager_Allocate(pc[p].snap, pc[p].arg))

SyncFreeReturn(p, r) ==
    /\ SetWorld(r.w)
    /\ SyncLeave(p, r.panic)
    /\ net' = IF r.panic \/ pc[p].arg = NIL THEN [net EXCEPT !.panics = @ \/ r.panic]
              ELSE [net EXCEPT !.buffers = @ - 1,
                               !.bytes = @ - pc[p].snap.buf[pc[p].arg].Size]
    /\ UNCHANGED held
SyncFreeBody(p) ==
    /\ pc[p].at = "body" /\ pc[p].obj = "bm" /\ pc[p].op = "Free"
    /\ SyncFreeReturn(p, bufferManager_Free(pc[p].snap, pc[p].arg))

SyncGetStatsBody(p) ==
    /\ pc[p].at = "body" /\ pc[p].obj = "bm" /\ pc[p].op = "GetStats"
    /\ SyncLeave(p, FALSE)
    /\ UNCHANGED <<sig, rel, svc, buffers, buckets, bm, held, net>>

\* synchedMemoryAllocator: this.lock.Lock() returns to caller p, the body of
\* op(arg) starts on the state it finds.
PSyncEnter(p, op, arg) ==
    /\ shared = "ma"
    /\ pc[p].at = "idle"
    /\ MutexCanLock(lock)
    /\ lock' = p
    /\ pc' = [pc EXCEPT ![p] = [at |-> "body", obj |-> "ma", op |-> op, arg |-> arg,
                                 snap |-> [this |-> ma, heap |-> items]]]
    /\ UNCHANGED <<sig, rel, svc, mgrVars, last, ma, items, calls, Lock, net, shared, peer>>

PSyncAllocateEnter(p) ==
    /\ Cardinality(out) < MaxSyncOut
    /\ PSyncEnter(p, "Allocate", 0)
    /\ UNCHANGED out
PSyncFreeEnter(p, item) ==
    /\ item \in out
    /\ PSyncEnter(p, "Free", item)
    /\ out' = out \ {item}
\* synchedMemoryAllocator.Free(nil) returns before it touches the lock.
PSyncFreeNil(p) ==
    /\ shared = "ma"
    /\ pc[p].at = "idle"
    /\ UNCHANGED <<sig, rel, svc, mgrVars, last, poolVars, syncVars, peer>>
PSyncGetStatsEnter(p) ==
    /\ PSyncEnter(p, "GetStats", 0)
    /\ UNCHANGED out

PSyncLeave(p, panicked) ==
    /\ lock' = DeferredUnlock(lock, panicked)
    /\ pc' = [pc EXCEPT ![p] = Idle]
    /\ net' = [net EXCEPT !.panics = @ \/ panicked]
    /\ UNCHANGED <<sig, rel, svc, mgrVars, last, Lock, calls, shared, peer>>

PSyncAllocateReturn(p, r) ==
    /\ ma' = r.this
    /\ items' = r.heap
    /\ out' = IF r.panic THEN out ELSE out \cup {r.result}
    /\ PSyncLeave(p, r.panic)
PSyncAllocateBody(p) ==
    /\ pc[p].at = "body" /\ pc[p].obj = "ma" /\ pc[p].op = "Allocate"
    /\ PSyncAllocateReturn(p, memoryAllocator_Allocate(pc[p].snap.this, pc[p].snap.heap))

PSyncFreeReturn(p, r) ==
    /\ ma' = r.this
    /\ items' = r.heap
    /\ PSyncLeave(p, FALSE)
    /\ UNCHANGED out
PSyncFreeBody(p) ==
    /\ pc[p].at = "body" /\ pc[p].obj = "ma" /\ pc[p].op = "Free"
    /\ PSyncFreeReturn(p, memoryAllocator_Free(pc[p].snap.this, pc[p].snap.heap, pc[p].arg))

PSyncGetStatsBody(p) ==
    /\ pc[p].at = "body" /\ pc[p].obj = "ma" /\ pc[p].op = "GetStats"
    /\ PSyncLeave(p, FALSE)
    /\ UNCHANGED <<sig, rel, svc, ma, items, out>>

SyncNext ==
    \E p \in Callers :
        \/ \E size \in 0..(MaxSyncBucketSize + 1) : SyncAllocateEnter(p, size)
        \/ \E b \in held \cup {NIL, ForeignBuffer} : SyncFreeEnter(p, b)
        \/ SyncGetStatsEnter(p)
        \/ SyncAllocateBody(p)
        \/ SyncFreeBody(p)
        \/ SyncGetStatsBody(p)
        \/ PSyncAllocateEnter(p)
        \/ \E item \in out : PSyncFreeEnter(p, item)
        \/ PSyncFreeNil(p)
        \/ PSyncGetStatsEnter(p)
        \/ PSyncAllocateBody(p)
        \/ PSyncFreeBody(p)
        \/ PSyncGetStatsBody(p)

SyncSpec == SyncInit /\ [][SyncNext]_vars

\* ------------------------------------------ constructors of the allocators
\* The arguments a caller may hand to NewAllocator and NewSynchedAllocator.
CtorBursts == (-1)..MaxCtorBurst
CtorFactories == {NilFactory, [kind |-> "item", mode |-> "exact"]}

CtorInit ==
    /\ MgrIdle
    /\ ma = NoAllocator
    /\ items = <<>>
    /\ out = {}
    /\ calls = [alloc |-> 0, free |-> 0, mixed |-> FALSE]
    /\ SyncNone
    /\ peer = NoPeer
    /\ svc = NoService /\ rel = NoRelease /\ sig = NoSignal
    /\ last = NoCall

\* NewAllocator(burstSize, factory) returned r, or panicked.
Construct(burstSize, factory) ==
    /\ ma = NoAllocator
    /\ ma' = NewAllocator(burstSize, factory).result
    /\ last' = [op |-> "NewAllocator",
                arg |-> [burstSize |-> burstSize, factory |-> factory],
                result |-> NIL, panic |-> NewAllocator(burstSize, factory).panic]
    /\ UNCHANGED <<sig, rel, svc, mgrVars, items, out, calls, syncVars, peer>>

\* NewSynchedAllocator(burstSize, factory) returned r, or panicked.
ConstructSynched(burstSize, factory) ==
    /\ ma = NoAllocator
    /\ ma' = NewSynchedAllocator(burstSize, factory).result.memoryAllocator
    /\ lock' = NewSynchedAllocator(burstSize, factory).result.lock
    /\ shared' = IF NewSynchedAllocator(burstSize, factory).panic THEN shared ELSE "ma"
    /\ last' = [op |-> "NewSynchedAllocator",
                arg |-> [burstSize |-> burstSize, factory |-> factory],
                result |-> NIL, panic |-> NewSynchedAllocator(burstSize, factory).panic]
    /\ UNCHANGED <<sig, rel, svc, mgrVars, items, out, calls, Lock, pc, net, peer>>

CtorNext ==
    \/ \E burstSize \in CtorBursts, factory \in CtorFactories :
          Construct(burstSize, factory)
    \/ \E burstSize \in CtorBursts, factory \in CtorFactories :
          ConstructSynched(burstSize, factory)
    \/ ma # NoAllocator /\ shared = "none" /\ PoolAllocate
    \/ \E item \in out : shared = "none" /\ PoolFree(item)
    \/ \E p \in Callers :
        \/ PSyncAllocateEnter(p)
        \/ \E item \in out : PSyncFreeEnter(p, item)
        \/ PSyncAllocateBody(p)
        \/ PSyncFreeBody(p)

CtorSpec == CtorInit /\ [][CtorNext]_vars

\* ------------------------------------------- two managers side by side
\* Both managers mint their items in the same memory; a caller that holds a
\* buffer of the second manager can hand it to the first one's Free.
PeerWorld == [buf |-> buffers, bkt |-> buckets, bm |-> peer.bm]

ForeignInit ==
    /\ buffers = <<>>
    /\ buckets = <<>>
    /\ \E bucketSize \in 1..MaxPeerBucketSize :
          /\ bm = NewBufferManager(bucketSize, 1, 1)
          /\ peer = [bm |-> NewBufferManager(bucketSize, 1, 1), held |-> {}]
    /\ held = {}
    /\ drained = {}
    /\ PoolIdle
    /\ SyncNone
    /\ svc = NoService /\ rel = NoRelease /\ sig = NoSignal
    /\ last = NoCall

\* peer.bm.Allocate(size) returned r.
PeerAllocateReturn(size, r) ==
    /\ buffers' = r.w.buf
    /\ buckets' = r.w.bkt
    /\ peer' = [bm |-> r.w.bm,
                held |-> IF r.result = NIL THEN peer.held ELSE peer.held \cup {r.result}]
    /\ last' = [op |-> "PeerAllocate", arg |-> size, result |-> r.result, panic |-> r.panic]
PeerAllocate(size) ==
    /\ size <= peer.bm.BucketSize
    /\ peer.bm.TotalAllocatedBuffers < MaxPeerTotal
    /\ PeerAllocateReturn(size, bufferManager_Allocate(PeerWorld, size))
    /\ UNCHANGED <<sig, rel, svc, bm, held, drained, poolVars, syncVars>>

\* bm.Free(b) returned or panicked, b a Buffer that bm never handed out.
ForeignFreeReturn(b, r) ==
    /\ SetWorld(r.w)
    /\ last' = [op |-> "ForeignFree", arg |-> b, result |-> NIL, panic |-> r.panic]
ForeignFree(b) ==
    /\ b \in peer.held \cup {ForeignBuffer}
    /\ ForeignFreeReturn(b, bufferManager_Free(World, b))
    /\ peer' = [peer EXCEPT !.held = @ \ {b}]
    /\ UNCHANGED <<sig, rel, svc, held, drained, poolVars, syncVars>>

ForeignNext ==
    \/ \E size \in 0..MaxPeerBucketSize :
          bm.TotalAllocatedBuffers < MaxPeerTotal /\ Allocate(size)
    \/ \E b \in held : Free(b)
    \/ \E size \in 0..MaxPeerBucketSize : PeerAllocate(size)
    \/ \E b \in peer.held \cup {ForeignBuffer} : ForeignFree(b)

ForeignSpec == ForeignInit /\ [][ForeignNext]_vars

\* ------------------- buffer manager, a larger bucket, requests that fit
FitInit ==
    /\ buffers = <<>>
    /\ buckets = <<>>
    /\ bm = NewBufferManager(MaxFitBucketSize, 1, 1)
    /\ held = {}
    /\ drained = {}
    /\ PoolIdle
    /\ SyncNone
    /\ peer = NoPeer
    /\ svc = NoService /\ rel = NoRelease /\ sig = NoSignal
    /\ last = NoCall

\* A caller's Allocate(size) while no bucket is reserved yet or some listed
\* bucket has a free buffer of that size: the manager stays at one bucket.
FitAllocate(size) ==
    /\ bm.TotalAllocatedBuffers < MaxFitTotal
    /\ \/ bm.ReservedBuckets = 0
       \/ \E k \in Range(BucketList) : \E f \in Range(FreeList(k)) : buffers[f].Size >= size
    /\ AllocateReturn(size, bufferManager_Allocate(World, size))
    /\ UNCHANGED <<sig, rel, svc, poolVars, syncVars, peer>>

FitNext ==
    \/ \E size \in 0..MaxFitBucketSize : FitAllocate(size)
    \/ \E b \in held : Free(b)

FitSpec == FitInit /\ [][FitNext]_vars

\* ------------------------------ buffer manager, pools with a burst of one
RoundInit ==
    /\ buffers = <<>>
    /\ buckets = <<>>
    /\ \E bucketSize \in 1..MaxRoundBucketSize : bm = NewBufferManager(bucketSize, 1, 1)
    /\ held = {}
    /\ drained = {}
    /\ PoolIdle
    /\ SyncNone
    /\ peer = NoPeer
    /\ svc = NoService /\ rel = NoRelease /\ sig = NoSignal
    /\ last = NoCall

RoundAllocate(size) ==
    /\ size > bm.BucketSize \/ bm.TotalAllocatedBuffers < MaxRoundTotal
    /\ AllocateReturn(size, bufferManager_Allocate(World, size))
    /\ UNCHANGED <<sig, rel, svc, poolVars, syncVars, peer>>

RoundNext ==
    \/ \E size \in 0..(MaxRoundBucketSize + 1) : RoundAllocate(size)
    \/ \E b \in held : Free(b)

RoundSpec == RoundInit /\ [][RoundNext]_vars

\* --------------------------------- buffer manager, negative sizes included
MaxNegBuffers == 4

\* Allocate(size) with any int the caller may pass, from -1 up.
NegAllocate(size) ==
    /\ \/ size > bm.BucketSize
       \/ bm.TotalAllocatedBuffers < MaxRoundTotal /\ Len(buffers) < MaxNegBuffers
    /\ AllocateReturn(size, bufferManager_Allocate(World, size))
    /\ UNCHANGED <<sig, rel, svc, poolVars, syncVars, peer>>

NegNext ==
    \/ \E size \in (-1)..(MaxRoundBucketSize + 1) : NegAllocate(size)
    \/ \E b \in held : Free(b)

NegSpec == RoundInit /\ [][NegNext]_vars

\* ------------------------- buffer manager, Release one loop turn at a time
MaxStepBucketSize == 2
MaxStepTotal == 3

StepInit ==
    /\ buffers = <<>>
    /\ buckets = <<>>
    /\ \E bucketSize \in 1..MaxStepBucketSize : bm = NewBufferManager(bucketSize, 1, 1)
    /\ held = {}
    /\ drained = {}
    /\ PoolIdle
    /\ SyncNone
    /\ peer = NoPeer
    /\ svc = NoService
    /\ rel = NoRelease /\ sig = NoSignal
    /\ last = NoCall

StepAllocate(size) ==
    /\ rel.at = "idle"
    /\ size > bm.BucketSize \/ bm.TotalAllocatedBuffers < MaxStepTotal
    /\ AllocateReturn(size, bufferManager_Allocate(World, size))
    /\ UNCHANGED <<sig, rel, svc, poolVars, syncVars, peer>>

\* bufferManager.Free up to the loop of Release: the counters, then either the
\* empty-list shortcut (or the nil bucket of an oversize buffer), or p at the head.
StepFreeBegin(b) ==
    /\ rel.at = "idle"
    /\ b \in held
    /\ held' = held \ {b}
    /\ IF buffers[b].Bucket = NIL
       THEN FreeReturn(b, bufferManager_Free(World, b)) /\ UNCHANGED rel
       ELSE IF buckets[buffers[b].Bucket].FreeBuffers = NIL
            THEN FreeReturn(b, bufferManager_Free(World, b)) /\ UNCHANGED rel
            ELSE /\ SetWorld(bufferManager_Free_count(World, b))
                 /\ rel' = [at |-> "scan", buffer |-> b, bucket |-> buffers[b].Bucket,
                            prev |-> NIL, merges |-> 0,
                            entries |-> Len(FreeList(buffers[b].Bucket))]
                 /\ UNCHANGED last
    /\ UNCHANGED <<sig, svc, drained, poolVars, syncVars, peer>>

\* One turn of `for *p != nil`: merge and restart at the head, or advance p.
ReleaseStep ==
    /\ rel.at = "scan"
    /\ FreeAt(World, rel.bucket, rel.prev) # NIL
    /\ IF MergableWith(buffers[rel.buffer], buffers[FreeAt(World, rel.bucket, rel.prev)])
       THEN IF ~buffer_MergeOk(World, buffers[rel.buffer],
                               buffers[FreeAt(World, rel.bucket, rel.prev)])
            THEN /\ rel' = NoRelease
                 /\ last' = [op |-> "Free", arg |-> rel.buffer, result |-> NIL,
                             panic |-> TRUE]
                 /\ UNCHANGED <<buffers, buckets, bm>>
            ELSE /\ SetWorld(bucket_Release_merge(World, rel.bucket, rel.buffer, rel.prev,
                                                  FreeAt(World, rel.bucket, rel.prev)))
                 /\ rel' = [rel EXCEPT !.prev = NIL, !.merges = @ + 1]
                 /\ UNCHANGED last
       ELSE /\ rel' = [rel EXCEPT !.prev = FreeAt(World, rel.bucket, rel.prev)]
            /\ UNCHANGED <<buffers, buckets, bm, last>>
    /\ UNCHANGED <<sig, svc, held, drained, poolVars, syncVars, peer>>

\* *p is nil: the loop ends, Release pushes `buffer`, Free reattaches the bucket.
ReleaseEnd ==
    /\ rel.at = "scan"
    /\ FreeAt(World, rel.bucket, rel.prev) = NIL
    /\ FreeReturn(rel.buffer,
                  bufferManager_Free_reattach(
                      rel.bucket,
                      bucket_Release_push([w |-> World, panic |-> FALSE],
                                          rel.bucket, rel.buffer)))
    /\ rel' = NoRelease
    /\ UNCHANGED <<sig, svc, held, drained, poolVars, syncVars, peer>>

StepNext ==
    \/ \E size \in 0..(MaxStepBucketSize + 1) : StepAllocate(size)
    \/ \E b \in held : StepFreeBegin(b)
    \/ ReleaseStep
    \/ ReleaseEnd

StepSpec == StepInit /\ [][StepNext]_vars
\* A call that is running keeps running.
StepFairSpec == StepSpec /\ WF_vars(ReleaseStep) /\ WF_vars(ReleaseEnd)

\* ----------------------------- Free(nil) on the plain and the wrapped objects
MaxNilTotal == 2

\* One object per behaviour: a plain or a synchronized manager, or a plain or a
\* synchronized pool.
NilInit ==
    /\ shared \in {"bm", "ma", "bufferManager", "memoryAllocator"}
    /\ IF shared \in {"bm", "bufferManager"}
       THEN SyncMgrInit /\ PoolIdle
       ELSE MgrIdle /\ SyncPoolInit
    /\ SyncIdle
    /\ peer = NoPeer
    /\ svc = NoService
    /\ rel = NoRelease /\ sig = NoSignal
    /\ last = NoCall

NilAllocate(size) ==
    /\ shared = "bufferManager"
    /\ size > bm.BucketSize \/ bm.TotalAllocatedBuffers < MaxNilTotal
    /\ AllocateReturn(size, bufferManager_Allocate(World, size))
    /\ UNCHANGED <<sig, rel, svc, poolVars, syncVars, peer>>
NilFree(b) ==
    /\ shared = "bufferManager"
    /\ Free(b)
\* bufferManager.Free(nil)
FreeNil ==
    /\ shared = "bufferManager"
    /\ FreeReturn(NIL, bufferManager_Free(World, NIL))
    /\ UNCHANGED <<sig, rel, svc, held, drained, poolVars, syncVars, peer>>

NilPoolAllocate ==
    /\ shared = "memoryAllocator"
    /\ PoolAllocate
NilPoolFree(item) ==
    /\ shared = "memoryAllocator"
    /\ PoolFree(item)
\* memoryAllocator.Free(nil)
PoolFreeNil ==
    /\ shared = "memoryAllocator"
    /\ ma' = memoryAllocator_Free(ma, items, NIL).this
    /\ items' = memoryAllocator_Free(ma, items, NIL).heap
    /\ last' = [op |-> "PoolFree", arg |-> NIL, result |-> NIL, panic |-> FALSE]
    /\ UNCHANGED <<sig, rel, svc, out, calls, mgrVars, syncVars, peer>>

NilSyncAllocateEnter(p, size) ==
    /\ size > bm.BucketSize \/ bm.TotalAllocatedBuffers < MaxNilTotal
    /\ SyncEnter(p, "Allocate", size)
    /\ UNCHANGED held
\* syncBufferManager.Free(buffer), nil included: the lock is taken first.
NilSyncFreeEnter(p, b) ==
    /\ b \in held \cup {NIL}
    /\ SyncEnter(p, "Free", b)
    /\ held' = held \ {b}
\* synchedMemoryAllocator.Free(nil): returns before it touches the lock.
PSyncFreeNilReturn(p) ==
    /\ shared = "ma"
    /\ pc[p].at = "idle"
    /\ last' = [op |-> "PoolFree", arg |-> NIL, result |-> NIL, panic |-> FALSE]
    /\ UNCHANGED <<sig, rel, svc, mgrVars, poolVars, syncVars, peer>>

NilNext ==
    \/ \E size \in 0..(MaxSyncBucketSize + 1) : NilAllocate(size)
    \/ \E b \in held : NilFree(b)
    \/ FreeNil
    \/ NilPoolAllocate
    \/ \E item \in out : NilPoolFree(item)
    \/ PoolFreeNil
    \/ \E p \in Callers :
          \/ \E size \in 0..(MaxSyncBucketSize + 1) : NilSyncAllocateEnter(p, size)
          \/ \E b \in held \cup {NIL} : NilSyncFreeEnter(p, b)
          \/ SyncAllocateBody(p)
          \/ SyncFreeBody(p)
          \/ PSyncAllocateEnter(p)
          \/ \E item \in out : PSyncFreeEnter(p, item)
          \/ PSyncAllocateBody(p)
          \/ PSyncFreeBody(p)
          \/ PSyncFreeNilReturn(p)

NilSpec == NilInit /\ [][NilNext]_vars

\* -------------------------------------------- SignalWhenAllErr, its goroutines
MaxChannels == 3
MaxReceives == 2
nonSigVars == <<buffers, buckets, bm, held, last, drained, ma, items, out, calls,
                Lock, lock, pc, net, shared, peer, svc, rel>>

\* What a producer may send on an input channel.
InputValues == {ErrNil, ErrOther}

\* The state SignalWhen...Err returns in: n input channels, one goroutine per
\* channel at its first receive.
SignalCalled(fn, n, first) ==
    [NoSignal EXCEPT !.fn = fn, !.n = n,
                     !.val = [i \in 1..n |-> ErrNil],
                     !.wpc = [i \in 1..n |-> first],
                     !.werr = [i \in 1..n |-> ErrNil]]

\* sync.WaitGroup: Wait returns while the counter is 0; Done lowers it and
\* panics when it falls below 0.
WaitGroup_WaitReturns(counter) == counter = 0
WaitGroup_DonePanics(counter) == counter - 1 < 0

SigAllInit ==
    /\ MgrIdle
    /\ PoolIdle
    /\ SyncNone
    /\ peer = NoPeer
    /\ svc = NoService
    /\ rel = NoRelease
    /\ last = NoCall
    /\ \E n \in 0..MaxChannels :
          sig = [SignalCalled("SignalWhenAllErr", n, "recv") EXCEPT
                    !.errors = [i \in 1..n |-> ErrNil],
                    !.waiter = "Wait"]

\* A producer makes a value available on channels[i].
InputSend(i, e) ==
    /\ ~sig.panic
    /\ i \in 1..sig.n
    /\ i \notin sig.ready \cup sig.taken
    /\ sig' = [sig EXCEPT !.ready = @ \cup {i}, !.val[i] = e]
    /\ UNCHANGED nonSigVars

\* err := <-channels[idx]
AllReceive(i) ==
    /\ ~sig.panic
    /\ i \in 1..sig.n
    /\ sig.wpc[i] = "recv"
    /\ i \in sig.ready
    /\ sig' = [sig EXCEPT !.ready = @ \ {i}, !.taken = @ \cup {i},
                          !.werr[i] = sig.val[i], !.wpc[i] = "Lock"]
    /\ UNCHANGED nonSigVars

\* mu.Lock()
AllLock(i) ==
    /\ ~sig.panic
    /\ i \in 1..sig.n
    /\ sig.wpc[i] = "Lock"
    /\ MutexCanLock(sig.mu)
    /\ sig' = [sig EXCEPT !.mu = i, !.wpc[i] = "store"]
    /\ UNCHANGED nonSigVars

\* errors[idx] = err; mu.Unlock()
AllStore(i) ==
    /\ ~sig.panic
    /\ i \in 1..sig.n
    /\ sig.wpc[i] = "store"
    /\ sig' = [sig EXCEPT !.errors[i] = sig.werr[i], !.mu = NIL, !.wpc[i] = "Done"]
    /\ UNCHANGED nonSigVars

\* wg.Done()
AllDone(i) ==
    /\ ~sig.panic
    /\ i \in 1..sig.n
    /\ sig.wpc[i] = "Done"
    /\ sig' = [sig EXCEPT !.wg = @ - 1, !.panic = WaitGroup_DonePanics(sig.wg),
                          !.wpc[i] = "end"]
    /\ UNCHANGED nonSigVars

\* wg.Wait()
AllWait ==
    /\ ~sig.panic
    /\ sig.waiter = "Wait"
    /\ WaitGroup_WaitReturns(sig.wg)
    /\ sig' = [sig EXCEPT !.waiter = "send"]
    /\ UNCHANGED nonSigVars

\* result <- errors (the slice travels by reference; the channel holds one)
AllSendResult ==
    /\ ~sig.panic
    /\ sig.waiter = "send"
    /\ Len(sig.result) < 1
    /\ sig' = [sig EXCEPT !.result = Append(@, "errors"), !.waiter = "end"]
    /\ UNCHANGED nonSigVars

\* The consumer receives the slice and reads it.
AllConsumerReceive ==
    /\ ~sig.panic
    /\ sig.fn = "SignalWhenAllErr"
    /\ Len(sig.result) > 0
    /\ sig' = [sig EXCEPT !.result = Tail(@), !.received = Append(@, sig.errors),
                          !.takenAtReceive = sig.taken]
    /\ UNCHANGED nonSigVars

SigAllNext ==
    \/ \E i \in 1..MaxChannels, e \in InputValues : InputSend(i, e)
    \/ \E i \in 1..MaxChannels : AllReceive(i) \/ AllLock(i) \/ AllStore(i) \/ AllDone(i)
    \/ AllWait
    \/ AllSendResult
    \/ AllConsumerReceive

SigAllSpec == SigAllInit /\ [][SigAllNext]_vars

\* -------------------------------------------- SignalWhenAnyErr, its goroutines
SigAnyInit ==
    /\ MgrIdle
    /\ PoolIdle
    /\ SyncNone
    /\ peer = NoPeer
    /\ svc = NoService
    /\ rel = NoRelease
    /\ last = NoCall
    /\ \E n \in 0..MaxChannels : sig = SignalCalled("SignalWhenAnyErr", n, "select")

\* outer select: case err := <-ch
AnyReceive(i) ==
    /\ ~sig.panic
    /\ i \in 1..sig.n
    /\ sig.wpc[i] = "select"
    /\ i \in sig.ready
    /\ sig' = [sig EXCEPT !.ready = @ \ {i}, !.taken = @ \cup {i},
                          !.werr[i] = sig.val[i], !.wpc[i] = "inner"]
    /\ UNCHANGED nonSigVars

\* outer or inner select: case <-done (ready once done is closed)
AnySeeDone(i) ==
    /\ ~sig.panic
    /\ i \in 1..sig.n
    /\ sig.wpc[i] \in {"select", "inner"}
    /\ sig.done = "closed"
    /\ sig' = [sig EXCEPT !.wpc[i] = "end"]
    /\ UNCHANGED nonSigVars

\* inner select: case result <- err, meeting a receive of the consumer
AnySend(i) ==
    /\ ~sig.panic
    /\ i \in 1..sig.n
    /\ sig.wpc[i] = "inner"
    /\ Len(sig.received) < MaxReceives
    /\ sig' = [sig EXCEPT !.received = Append(@, sig.werr[i]), !.wpc[i] = "close"]
    /\ UNCHANGED nonSigVars

\* close(done): closing a closed channel panics
AnyClose(i) ==
    /\ ~sig.panic
    /\ i \in 1..sig.n
    /\ sig.wpc[i] = "close"
    /\ sig' = [sig EXCEPT !.done = "closed", !.closes = @ + 1,
                          !.panic = (sig.done = "closed"), !.wpc[i] = "end"]
    /\ UNCHANGED nonSigVars

SigAnyNext ==
    \/ \E i \in 1..MaxChannels, e \in InputValues : InputSend(i, e)
    \/ \E i \in 1..MaxChannels : AnyReceive(i) \/ AnySeeDone(i) \/ AnySend(i) \/ AnyClose(i)

SigAnySpec == SigAnyInit /\ [][SigAnyNext]_vars

\* ------------------------------------------------- services and their stop
otherVars == <<buffers, buckets, bm, held, last, drained, ma, items, out, calls,
               Lock, lock, pc, net, shared, peer, rel, sig>>

\* A caller holds a stopRequested channel (or nil) that may already be closed.
ServiceInit ==
    /\ MgrIdle
    /\ PoolIdle
    /\ SyncNone
    /\ peer = NoPeer
    /\ last = NoCall
    /\ rel = NoRelease /\ sig = NoSignal
    /\ \E stopRequested \in {"nil", "open", "closed"} :
          svc = [NoService EXCEPT !.stopRequested = stopRequested]

\* ExecuteServiceAsync (api = "RunService": as called by RunService): make the
\* channel and start the goroutines; the caller goes on to receive from it.
ExecuteServiceAsync(api) ==
    /\ svc.caller = "idle"
    /\ svc' = [svc EXCEPT !.api = api,
                          !.cap = StoppedCap(svc.stopRequested),
                          !.stopped = <<>>,
                          !.runner = "Run",
                          !.sends = ResultSends(svc.stopRequested),
                          !.watcher = IF svc.stopRequested = "nil" THEN "none" ELSE "select",
                          !.caller = "recv"]
    /\ UNCHANGED otherVars

\* ExecuteAsyncService: service.Start(), then the same channel and goroutines;
\* the runner waits on the channel Start returned.
ExecuteAsyncService ==
    /\ svc.caller = "idle"
    /\ svc' = [svc EXCEPT !.api = "ExecuteAsyncService",
                          !.cap = StoppedCap(svc.stopRequested),
                          !.stopped = <<>>,
                          !.runner = "Run",
                          !.sends = ResultSends(svc.stopRequested),
                          !.watcher = IF svc.stopRequested = "nil" THEN "none" ELSE "select",
                          !.caller = "recv"]
    /\ UNCHANGED otherVars

\* close(stopRequested), by whoever owns the channel, at any time.
RequestStop ==
    /\ svc.stopRequested = "open"
    /\ svc' = [svc EXCEPT !.stopRequested = "closed"]
    /\ UNCHANGED otherVars

\* err := getServiceResult(service.Run()), or getServiceResult(<-svcStopped)
RunReturns(e) ==
    /\ svc.runner = "Run"
    /\ svc' = [svc EXCEPT !.runner = "send", !.runReturned = TRUE, !.runResult = e,
                          !.err = getServiceResult(e)]
    /\ UNCHANGED otherVars

\* stopped <- err
RunnerSend ==
    /\ svc.runner = "send"
    /\ Len(svc.stopped) < svc.cap
    /\ svc' = [svc EXCEPT !.stopped = Append(@, svc.err),
                          !.sends = @ - 1,
                          !.runner = IF svc.sends = 1 THEN "done" ELSE "send"]
    /\ UNCHANGED otherVars

\* select: case <-stopRequested
WatcherSelectStopRequested ==
    /\ svc.watcher = "select"
    /\ svc.stopRequested = "closed"
    /\ svc' = [svc EXCEPT !.watcher = "Shutdown"]
    /\ UNCHANGED otherVars

\* select: case <-stopped
WatcherSelectStopped ==
    /\ svc.watcher = "select"
    /\ Len(svc.stopped) > 0
    /\ svc' = [svc EXCEPT !.stopped = Tail(@), !.watcher = "done"]
    /\ UNCHANGED otherVars

\* A watcher that goes back to its select after the call.
WatcherCallsShutdownAndSelects(s) ==
    [s EXCEPT !.shutdown = TRUE, !.shutdowns = @ + 1, !.watcher = "select"]

\* The watcher calls Shutdown (Stop) and goes on to `<-stopped`.
WatcherCallsShutdown(s) ==
    [s EXCEPT !.shutdown = TRUE, !.shutdowns = @ + 1, !.watcher = "wait"]

\* service.Shutdown() / service.Stop()
WatcherShutdown ==
    /\ svc.watcher = "Shutdown"
    /\ svc' = WatcherCallsShutdown(svc)
    /\ UNCHANGED otherVars

\* <-stopped, after Shutdown
WatcherWait ==
    /\ svc.watcher = "wait"
    /\ Len(svc.stopped) > 0
    /\ svc' = [svc EXCEPT !.stopped = Tail(@), !.watcher = "done"]
    /\ UNCHANGED otherVars

\* The receive on the returned channel: RunService's return value.
CallerReceive ==
    /\ svc.caller = "recv"
    /\ Len(svc.stopped) > 0
    /\ svc' = [svc EXCEPT !.stopped = Tail(@), !.result = Head(svc.stopped),
                          !.caller = "returned"]
    /\ UNCHANGED otherVars

ServiceNext ==
    \/ \E api \in {"ExecuteServiceAsync", "RunService"} : ExecuteServiceAsync(api)
    \/ ExecuteAsyncService
    \/ RequestStop
    \/ \E e \in RunResults : RunReturns(e)
    \/ RunnerSend
    \/ WatcherSelectStopRequested
    \/ WatcherSelectStopped
    \/ WatcherShutdown
    \/ WatcherWait
    \/ CallerReceive

ServiceSpec == ServiceInit /\ [][ServiceNext]_vars

\* A goroutine that can take a step is scheduled eventually; the service's Run
\* and the owner of stopRequested are under no obligation.
ServiceFairSpec ==
    /\ ServiceInit
    /\ [][ServiceNext]_vars
    /\ WF_vars(RunnerSend)
    /\ WF_vars(WatcherSelectStopRequested \/ WatcherSelectStopped)
    /\ WF_vars(WatcherShutdown)
    /\ WF_vars(WatcherWait)
    /\ WF_vars(CallerReceive)

\* ------------------------------------------------- merged services, running
\* The service handed to the executer was built by MergeServices from n
\* services; Run starts one goroutine per component.
MergedInit ==
    /\ MgrIdle
    /\ PoolIdle
    /\ SyncNone
    /\ peer = NoPeer
    /\ last = NoCall
    /\ rel = NoRelease /\ sig = NoSignal
    /\ \E stopRequested \in {"nil", "open", "closed"}, n \in 2..MaxMerged :
          svc = [NoService EXCEPT
                    !.stopRequested = stopRequested,
                    !.merged = [NoMerged EXCEPT
                                   !.n = n,
                                   !.cpc = [i \in 1..n |-> "Run"],
                                   !.cres = [i \in 1..n |-> ErrNil]]]

\* err := service.Run() in the goroutine of component i; a failure is wrapped.
ComponentRunReturns(i, e) ==
    /\ svc.runner = "Run"
    /\ i \in 1..svc.merged.n
    /\ svc.merged.cpc[i] = "Run"
    /\ svc' = [svc EXCEPT !.merged.cpc[i] = "send",
                          !.merged.cres[i] = e]
    /\ UNCHANGED otherVars

\* resultChannel <- err (the channel has room for every component)
ComponentSend(i) ==
    /\ i \in 1..svc.merged.n
    /\ svc.merged.cpc[i] = "send"
    /\ Len(svc.merged.resultChannel) < svc.merged.n
    /\ svc' = [svc EXCEPT
                  !.merged.cpc[i] = "done",
                  !.merged.resultChannel =
                      Append(@, IF svc.merged.cres[i] # ErrNil
                                THEN ComponentError(i, svc.merged.cres[i])
                                ELSE ErrNil)]
    /\ UNCHANGED otherVars

\* err := <-resultChannel; errBuilder.AddError(err)
MergedReceive ==
    /\ svc.runner = "Run"
    /\ svc.merged.got < svc.merged.n
    /\ Len(svc.merged.resultChannel) > 0
    /\ svc' = [svc EXCEPT
                  !.merged.resultChannel = Tail(@),
                  !.merged.got = @ + 1,
                  !.merged.errs =
                      AggregateErrorBuilder_AddError(@, Head(svc.merged.resultChannel))]
    /\ UNCHANGED otherVars

\* return errBuilder.GetError(), after len(Services) receives
MergedRunReturns ==
    /\ svc.merged.n > 0
    /\ svc.merged.got = svc.merged.n
    /\ RunReturns(AggregateErrorBuilder_GetError(svc.merged.errs))

MergedNext ==
    \/ \E api \in {"ExecuteServiceAsync", "RunService"} : ExecuteServiceAsync(api)
    \/ RequestStop
    \/ \E i \in 1..MaxMerged, e \in PlainRunResults : ComponentRunReturns(i, e)
    \/ \E i \in 1..MaxMerged : ComponentSend(i)
    \/ MergedReceive
    \/ MergedRunReturns
    \/ RunnerSend
    \/ WatcherSelectStopRequested
    \/ WatcherSelectStopped
    \/ WatcherShutdown
    \/ WatcherWait
    \/ CallerReceive

MergedSpec == MergedInit /\ [][MergedNext]_vars

\* ------------------------------------------------ claims, buffer manager
\* The buffers that describe bucket k: its free list and its in-use buffers.
Pieces(k) == Range(FreeList(k)) \cup InUse(k)

\* C1 (partition invariant): for every reserved bucket, the free-list buffers
\* and the in-use buffers are distinct items of that bucket, and every byte of
\* [0, BucketSize) lies in exactly one of them.
C1_Partition ==
    \A k \in ReservedBucketIds :
        /\ Len(FreeList(k)) = Cardinality(Range(FreeList(k)))
        /\ Range(FreeList(k)) \cap held = {}
        /\ \A b \in Range(FreeList(k)) : buffers[b].Bucket = k
        /\ \A x \in 0..(bm.BucketSize - 1) :
              Cardinality({b \in Pieces(k) : x \in Bytes(b)}) = 1
        /\ \A b \in Pieces(k) : Bytes(b) \subseteq 0..(bm.BucketSize - 1)
\* A Free has just left a bucket with two free fragments and an in-use buffer.
C1_Witness ==
    /\ last.op = "Free"
    /\ \E k \in ReservedBucketIds : Len(FreeList(k)) >= 2 /\ InUse(k) # {}

\* C2 (no overrun): every buffer item that belongs to a bucket, whether free,
\* in use or parked in the pool, has 0 <= Start and Start + Size <= BucketSize.
C2_NoOverrun ==
    \A b \in DOMAIN buffers :
        buffers[b].Bucket # NIL =>
            /\ buffers[b].Start >= 0
            /\ buffers[b].Size >= 0
            /\ End(buffers[b]) <= bm.BucketSize
\* A cut remainder on a free list and a merged buffer exist at once.
C2_Witness ==
    /\ last.op = "Free"
    /\ bm.BufferAllocator.avail # NIL
    /\ \E k \in ReservedBucketIds : \E b \in InUse(k) :
          /\ buffers[b].Size > 0
          /\ \E f \in Range(FreeList(k)) : buffers[f].Start > 0 /\ End(buffers[f]) = bm.BucketSize

\* C3 (coalescing completeness): a bucket whose whole capacity was handed out
\* in buffers of positive size and has since got all of them back holds exactly
\* one free buffer, [0, BucketSize).
C3_Coalesced ==
    \A k \in drained :
        InUse(k) = {} =>
            /\ Len(FreeList(k)) = 1
            /\ buffers[FreeList(k)[1]].Start = 0
            /\ buffers[FreeList(k)[1]].Size = bm.BucketSize
\* Three buffers of one bucket were handed out and the last of them has come back.
C3_Witness ==
    /\ last.op = "Free"
    /\ bm.TotalAllocatedBuffers = 3
    /\ bm.TotalAllocatedBytes = bm.BucketSize
    /\ bm.ReservedBuckets = 1
    /\ \E k \in drained : InUse(k) = {} /\ Len(FreeList(k)) = 1

C9_AllocateSucceeds ==
    (last.op = "Allocate" /\ 0 <= last.arg /\ last.arg <= bm.BucketSize) =>
        /\ ~last.panic
        /\ last.result # NIL
        /\ last.result \in held
        /\ buffers[last.result].Size = last.arg
\* An Allocate that no listed bucket could serve got its buffer from a new bucket.
C9_Witness ==
    /\ last.op = "Allocate"
    /\ last.result # NIL
    /\ bm.ReservedBuckets = 2
    /\ buffers[last.result].Bucket = 2
    /\ buffers[last.result].Size > 0
    /\ buckets[1].FreeBuffers # NIL

\* C10 (oversize rejection): an Allocate(size) with size > BucketSize returns no
\* buffer, does not panic and changes neither GetStats nor the bucket list nor
\* any bucket or buffer.
C10_OversizeRejected ==
    [][(last'.op = "Allocate" /\ last'.arg > bm.BucketSize) =>
          /\ last'.result = NIL
          /\ ~last'.panic
          /\ bufferManager_GetStats([buf |-> buffers', bkt |-> buckets', bm |-> bm'])
                = bufferManager_GetStats(World)
          /\ ListFrom(buckets', bm'.Buckets) = BucketList
          /\ buckets' = buckets
          /\ buffers' = buffers
          /\ held' = held]_vars
\* An oversize Allocate was made on a manager with a reserved bucket and a held buffer.
C10_Witness ==
    /\ last.op = "Allocate"
    /\ last.arg > bm.BucketSize
    /\ bm.ReservedBuckets >= 1
    /\ held # {}

\* -------------------------------------------------- claims, object pool
\* C7 (pool counter invariant): allocatedItems <= reservedItems, and with an
\* empty free list allocatedItems = reservedItems.
C7_PoolCounters ==
    /\ ma.allocatedItems <= ma.reservedItems
    /\ ma.avail = NIL => ma.allocatedItems = ma.reservedItems
\* After frees and further allocations the free list has run empty again.
C7_Witness ==
    /\ last.op = "PoolAllocate"
    /\ ~last.panic
    /\ calls.free > 0
    /\ ma.avail = NIL
    /\ ma.reservedItems >= 2

\* C8 (pool accounting by bursts): with burstSize b >= 1 and a factory that
\* returns exactly b items, k Allocate calls followed by j Free calls of
\* checked-out items leave reservedItems = b * ceil(k / b) and
\* allocatedItems = k - j.
C8_BurstAccounting ==
    (ma.burstSize >= 1 /\ ma.factory.mode = "exact" /\ ~calls.mixed) =>
        /\ ma.reservedItems = ma.burstSize * ((calls.alloc + ma.burstSize - 1) \div ma.burstSize)
        /\ ma.allocatedItems = calls.alloc - calls.free
\* b = 4, k = 5, then 3 frees: reserved 8, allocated 2.
C8_Witness ==
    /\ ma.burstSize = 4
    /\ ma.factory.mode = "exact"
    /\ ~calls.mixed
    /\ calls.alloc = 5
    /\ calls.free = 3
    /\ ma.reservedItems = 8
    /\ ma.allocatedItems = 2

\* ------------------------------------------ claims, synchronized wrappers
AllReturned == \A p \in Callers : pc[p].at = "idle"

RECURSIVE SizeSum(_)
SizeSum(S) ==
    IF S = {} THEN 0
    ELSE LET b == CHOOSE x \in S : TRUE
         IN  buffers[b].Size + SizeSum(S \ {b})

\* C5 (concurrent safety of the synchronized manager): once every call of the
\* callers has returned, AllocatedBuffers is the number of buffers still held
\* and the net count of the successful Allocate and Free calls, AllocatedBytes
\* is the sum of the held buffers' sizes and the net of the bytes of those
\* calls, and every bucket satisfies the partition invariant.
C5_ConcurrentSafety ==
    (shared = "bm" /\ AllReturned) =>
        /\ bm.AllocatedBuffers = Cardinality(held)
        /\ bm.AllocatedBuffers = net.buffers
        /\ bm.AllocatedBytes = SizeSum(held)
        /\ bm.AllocatedBytes = net.bytes
        /\ C1_Partition
\* All calls have returned; buffers were freed, and a bucket is left with a
\* free fragment next to a buffer that is still held.
C5_Witness ==
    /\ shared = "bm"
    /\ AllReturned
    /\ bm.TotalAllocatedBuffers > bm.AllocatedBuffers
    /\ bm.AllocatedBytes > 0
    /\ \E k \in ReservedBucketIds : FreeList(k) # <<>> /\ InUse(k) # {}

\* The holder of mutex m is the one caller inside a body of wrapper obj; with
\* no body under way the mutex is free.
LockHeldByBody(obj, m) ==
    /\ Cardinality(InCall(obj)) <= 1
    /\ InCall(obj) = {} => m = NIL
    /\ \A p \in InCall(obj) : m = p

\* Only the body of the caller that holds Lock writes the manager, its two
\* inner pools and the items they hand out.
ManagerWrittenUnderLock ==
    (bm' # bm \/ buffers' # buffers \/ buckets' # buckets) =>
        /\ Lock # NIL
        /\ pc[Lock].at = "body" /\ pc[Lock].obj = "bm"
        /\ pc'[Lock].at = "idle"

\* Only the body of the caller that holds lock writes the allocator.
AllocatorWrittenUnderLock ==
    (ma' # ma \/ items' # items) =>
        /\ lock # NIL
        /\ pc[lock].at = "body" /\ pc[lock].obj = "ma"
        /\ pc'[lock].at = "idle"

\* C6 (lock discipline): at most one Allocate/Free/GetStats body of the
\* synchronized manager, and at most one of the synchronized allocator, is
\* under way at a time; the manager and its inner pools, and the allocator,
\* are written only by that body; and a wrapper's lock is free whenever none
\* of its operations is under way, also after an operation that panicked.
C6_LockDiscipline ==
    /\ [](LockHeldByBody("bm", Lock) /\ LockHeldByBody("ma", lock))
    /\ [][ManagerWrittenUnderLock /\ AllocatorWrittenUnderLock]_vars
\* A Free has panicked on the manager, and afterwards another operation took
\* the lock and is in its body.
C6_Witness ==
    /\ shared = "bm"
    /\ net.panics
    /\ \E p \in Callers : pc[p].at = "body" /\ pc[p].op = "Allocate" /\ Lock = p

\* ------------------------------------------- claims, buffer manager (2)
\* The buffer pool's available list.
PoolAvail == ListFrom(buffers, bm.BufferAllocator.avail)

\* C12 (exclusive ownership): no held buffer is on a bucket's free list or on
\* the buffer pool's available list, and Allocate never returns a buffer that
\* a caller still holds.
C12_ExclusiveOwnership ==
    /\ [](/\ \A k \in ReservedBucketIds : Range(FreeList(k)) \cap held = {}
          /\ Range(PoolAvail) \cap held = {})
    /\ [][(last'.op = "Allocate" /\ last'.result # NIL) => last'.result \notin held]_vars
\* Two buffers are held while a bucket has a free buffer and a merged-away
\* buffer item waits in the pool.
C12_Witness ==
    /\ Cardinality(held) >= 2
    /\ PoolAvail # <<>>
    /\ \E k \in ReservedBucketIds : FreeList(k) # <<>>

\* C13 (bucket lifecycle): on a fresh manager whose only successful Allocate
\* asked for BucketSize bytes, exactly one bucket is reserved; while the buffer
\* is held the bucket is detached (AvailableBuckets = 0, Buckets empty, Next =
\* sentry_bucket), and once the buffer is freed that same bucket is the one
\* entry of Buckets (AvailableBuckets = 1) and no other bucket was reserved.
C13_BucketLifecycle ==
    (bm.TotalAllocatedBuffers = 1 /\ bm.TotalAllocatedBytes = bm.BucketSize) =>
        /\ bm.ReservedBuckets = 1
        /\ Cardinality(ReservedBucketIds) = 1
        /\ \A k \in ReservedBucketIds :
              IF held # {}
              THEN /\ bm.AvailableBuckets = 0
                   /\ BucketList = <<>>
                   /\ buckets[k].Next = sentry_bucket
                   /\ \A b \in held : buffers[b].Bucket = k
              ELSE /\ bm.AvailableBuckets = 1
                   /\ BucketList = <<k>>
                   /\ last.op = "Free" => buffers[last.arg].Bucket = k
\* The buffer of BucketSize bytes was freed and its bucket is listed again.
C13_Witness ==
    /\ bm.TotalAllocatedBuffers = 1
    /\ bm.TotalAllocatedBytes = bm.BucketSize
    /\ last.op = "Free"
    /\ bm.AvailableBuckets = 1
    /\ bm.ReservedBuckets = 1

\* The free list of bucket k in world w, and the bytes and byte count it covers.
FreeListIn(w, k) == ListFrom(w.buf, w.bkt[k].FreeBuffers)
FreeBytesIn(w, k) ==
    UNION {w.buf[b].Start .. (End(w.buf[b]) - 1) : b \in Range(FreeListIn(w, k))}
RECURSIVE SumSizesIn(_, _)
SumSizesIn(w, list) ==
    IF list = <<>> THEN 0 ELSE w.buf[Head(list)].Size + SumSizesIn(w, Tail(list))
ReservedIn(w, k) == k \in DOMAIN w.bkt /\ w.bkt[k].Buffer.arr # NIL

\* Allocate(size) returned a (in a.w) out of bucket k, Free(a.result) returned f.
RoundTripSame(w, k, f) ==
    /\ ~f.panic
    /\ FreeBytesIn(f.w, k) = FreeBytesIn(w, k)
    /\ SumSizesIn(f.w, FreeListIn(f.w, k)) = SumSizesIn(w, FreeListIn(w, k))
RoundTripFrom(w, a) ==
    (a.result # NIL /\ ReservedIn(w, a.w.buf[a.result].Bucket)) =>
        RoundTripSame(w, a.w.buf[a.result].Bucket, bufferManager_Free(a.w, a.result))
\* The round trip put other items, or another order, on the free list.
RoundTripRelinked(w, a) ==
    /\ a.result # NIL
    /\ ReservedIn(w, a.w.buf[a.result].Bucket)
    /\ FreeListIn(bufferManager_Free(a.w, a.result).w, a.w.buf[a.result].Bucket)
          # FreeListIn(w, a.w.buf[a.result].Bucket)
    /\ Len(FreeListIn(w, a.w.buf[a.result].Bucket)) >= 2

\* C14 (round trip): in every reachable state and for every size, when
\* Allocate(size) is served by a bucket that was already reserved and the
\* returned buffer is freed at once, that bucket's free list covers the same
\* bytes, and as many, as before the Allocate.
C14_RoundTrip ==
    \A size \in 0..bm.BucketSize : RoundTripFrom(World, bufferManager_Allocate(World, size))
\* A state with a fragmented bucket where the round trip changes the free
\* list's items or order, its coverage staying the same.
C14_Witness ==
    \E size \in 1..bm.BucketSize :
        /\ RoundTripRelinked(World, bufferManager_Allocate(World, size))
        /\ RoundTripFrom(World, bufferManager_Allocate(World, size))

\* ------------------------------------------------------- claims, pool (2)
\* C15 (factory failure): an Allocate that finds the free list empty and whose
\* factory yields a nil collection, no item (burstSize = 0 included) or a
\* collection with a nil item panics and returns no item, and reservedItems,
\* allocatedItems and the available list stay as they were.
C15_FactoryFailure ==
    [][(\/ last'.op = "PoolAllocateFaulty"
        \/ /\ last'.op = "PoolAllocate"
           /\ ma.avail = NIL
           /\ Len(CallFactory(ma.factory, ma.burstSize).items) = 0) =>
          /\ last'.panic
          /\ last'.result = NIL
          /\ ma' = ma
          /\ out' = out]_vars
\* The factory failed on a pool whose items are all checked out.
C15_Witness ==
    /\ last.op = "PoolAllocateFaulty"
    /\ last.panic
    /\ ma.burstSize >= 2
    /\ ma.avail = NIL
    /\ ma.allocatedItems = ma.reservedItems
    /\ ma.reservedItems >= ma.burstSize

\* A constructor call with arguments a is valid.
ValidCtorArgs(a) == a.burstSize >= 0 /\ a.factory # NilFactory

\* C16 (construction validation): NewAllocator and NewSynchedAllocator panic
\* when burstSize < 0 or the factory is nil, and for every burstSize >= 0 with
\* a factory they return an allocator with that burst and factory,
\* reservedItems = 0, allocatedItems = 0 and an empty free list (the
\* synchronized one with its mutex unlocked).
C16_ConstructionValidation ==
    [][last' # last /\ last'.op \in {"NewAllocator", "NewSynchedAllocator"} =>
          /\ last'.panic <=> ~ValidCtorArgs(last'.arg)
          /\ last'.panic => ma' = NoAllocator /\ shared' = "none"
          /\ ~last'.panic =>
                /\ ma'.burstSize = last'.arg.burstSize
                /\ ma'.factory = last'.arg.factory
                /\ ma'.reservedItems = 0
                /\ ma'.allocatedItems = 0
                /\ ma'.avail = NIL
                /\ lock' = NIL
                /\ shared' = (IF last'.op = "NewAllocator" THEN "none" ELSE "ma")]_vars
\* NewAllocator(0, factory) succeeded: a valid allocator whose burst is 0.
C16_Witness ==
    /\ last.op = "NewAllocator"
    /\ ~last.panic
    /\ last.arg.burstSize = 0
    /\ ma # NoAllocator
    /\ ma.burstSize = 0

\* -------------------------------------------------- claims, foreign buffers
\* C11 (foreign buffer): Free of a non-nil Buffer that this manager did not
\* hand out, a buffer of another manager included, ends in a panic and leaves
\* this manager's counters as they were.
C11_ForeignFreeFailsLoudly ==
    [][last'.op = "ForeignFree" =>
          /\ last'.panic
          /\ bufferManager_GetStats(World)' = bufferManager_GetStats(World)]_vars

\* ---------------------------------------------------------- claims, services
\* What the result is said to be for Run's return value e.
MappedResult(e) ==
    IF e \in {ErrNil, ErrServiceStopped, http_ErrServerClosed} THEN ErrNil ELSE e

\* C17 (service result mapping): the value received from the channel returned
\* by ExecuteServiceAsync, and returned by RunService, is nil when Run
\* returned nil, ErrServiceStopped or http.ErrServerClosed and is Run's error
\* itself when Run returned any other error, with and without stopRequested.
C17_ResultMapping ==
    svc.caller = "returned" => svc.result = MappedResult(svc.runResult)

\* C18 (RunService waits for completion): under any timing of the stop
\* request, RunService does not return before Run has returned, and once Run
\* has returned RunService eventually returns.
C18_WaitsForCompletion ==
    /\ [](svc.caller = "returned" => svc.runReturned)
    /\ (svc.runReturned ~> svc.caller = "returned")
\* The watcher received the stop request, called Shutdown and took one copy
\* of the result, and RunService returned the other.
C18_Witness ==
    /\ svc.api = "RunService"
    /\ svc.shutdown
    /\ svc.watcher = "done"
    /\ svc.caller = "returned"
    /\ svc.runner = "done"

\* ------------------------------------------- claims, buffer manager (3)
\* Two distinct entries of bucket k's free list, the first ending where the
\* second starts.
AdjacentFree(k) ==
    \E a, b \in Range(FreeList(k)) :
        a # b /\ End(buffers[a]) = buffers[b].Start

\* C19 (full coalescing as an invariant): after every Free and every
\* Allocate, no bucket's free list holds two byte-adjacent buffers, in
\* whatever order they are listed.
C19_NoAdjacentFree ==
    last.op \in {"Allocate", "Free"} =>
        \A k \in ReservedBucketIds : ~AdjacentFree(k)

\* The position on `list` of the first entry of at least `size` bytes; 0 when
\* every entry is smaller.
FirstFit(w, list, size) ==
    IF \E i \in 1..Len(list) : w.buf[list[i]].Size >= size
    THEN CHOOSE i \in 1..Len(list) :
            /\ w.buf[list[i]].Size >= size
            /\ \A j \in 1..(i - 1) : w.buf[list[j]].Size < size
    ELSE 0
\* list without its i-th entry.
Without(list, i) == SubSeq(list, 1, i - 1) \o SubSeq(list, i + 1, Len(list))

\* r is what serving `size` from the i-th entry of bucket k's free list gives:
\* the front `size` bytes of that entry, the entry unlinked when it is used
\* up and shortened in place otherwise, every other entry as it was.
ServedFrom(w, k, size, i, r) ==
    /\ ~r.panic
    /\ r.result # NIL
    /\ r.w.buf[r.result].Bucket = k
    /\ r.w.buf[r.result].Start = w.buf[FreeListIn(w, k)[i]].Start
    /\ r.w.buf[r.result].Size = size
    /\ IF w.buf[FreeListIn(w, k)[i]].Size = size
       THEN /\ r.result = FreeListIn(w, k)[i]
            /\ FreeListIn(r.w, k) = Without(FreeListIn(w, k), i)
       ELSE /\ r.result \notin Range(FreeListIn(w, k))
            /\ FreeListIn(r.w, k) = FreeListIn(w, k)
            /\ r.w.buf[FreeListIn(w, k)[i]].Start = w.buf[FreeListIn(w, k)[i]].Start + size
            /\ r.w.buf[FreeListIn(w, k)[i]].Size = w.buf[FreeListIn(w, k)[i]].Size - size
    /\ \A j \in 1..Len(FreeListIn(w, k)) :
          j # i =>
             /\ r.w.buf[FreeListIn(w, k)[j]].Start = w.buf[FreeListIn(w, k)[j]].Start
             /\ r.w.buf[FreeListIn(w, k)[j]].Size = w.buf[FreeListIn(w, k)[j]].Size
FirstFitServed(w, k, size, r) ==
    IF FirstFit(w, FreeListIn(w, k), size) = 0
    THEN ~r.panic /\ r.result = NIL /\ r.w = w
    ELSE ServedFrom(w, k, size, FirstFit(w, FreeListIn(w, k), size), r)

\* C20 (first-fit selection): in every reachable state, for every reserved
\* bucket and every requested size, Bucket.Allocate serves the request from
\* the first free-list entry whose size >= requested, also when a later entry
\* is an exact or tighter fit, and returns none exactly when every entry is
\* smaller than requested.
C20_FirstFit ==
    \A k \in ReservedBucketIds : \A size \in 0..(bm.BucketSize + 1) :
        FirstFitServed(World, k, size, bucket_Allocate(World, k, size))
\* The last Allocate was cut from a free entry that is still listed in front
\* of a smaller entry that would have held the request.
C20_Witness ==
    /\ last.op = "Allocate"
    /\ last.arg > 0
    /\ last.result # NIL
    /\ \E i, j \in 1..Len(FreeList(buffers[last.result].Bucket)) :
          /\ i < j
          /\ End(buffers[last.result])
               = buffers[FreeList(buffers[last.result].Bucket)[i]].Start
          /\ buffers[FreeList(buffers[last.result].Bucket)[j]].Size >= last.arg
          /\ buffers[FreeList(buffers[last.result].Bucket)[j]].Size
               < buffers[FreeList(buffers[last.result].Bucket)[i]].Size + last.arg

\* ------------------------------------------- claims, buffer manager (4)
\* c, the i-th entry of bucket k's free list, is larger than `size`: r.result
\* is an item taken from the buffer pool that covers the front `size` bytes of
\* c, and c keeps its place on the list with the tail.
SplitOff(w, k, size, c, r) ==
    /\ r.result # c
    /\ r.result \notin Range(FreeListIn(w, k))
    /\ r.w.bm.BufferAllocator.allocatedItems = w.bm.BufferAllocator.allocatedItems + 1
    /\ r.w.buf[r.result].Bucket = k
    /\ r.w.buf[r.result].Start = w.buf[c].Start
    /\ r.w.buf[r.result].Size = size
    /\ r.w.buf[r.result].Data = Slice(w.buf[c].Data, 0, size)
    /\ FreeListIn(r.w, k) = FreeListIn(w, k)
    /\ r.w.buf[c].Start = w.buf[c].Start + size
    /\ r.w.buf[c].Size = w.buf[c].Size - size
    /\ r.w.buf[c].Data = Slice(w.buf[c].Data, size, w.buf[c].Data.len)
\* c, the i-th entry, has exactly `size` bytes: c itself is returned, the
\* buffer pool is not touched, the other entries keep their order.
TakenWhole(w, k, i, c, r) ==
    /\ r.result = c
    /\ r.w.bm = w.bm
    /\ r.w.buf[c].Start = w.buf[c].Start
    /\ r.w.buf[c].Size = w.buf[c].Size
    /\ r.w.buf[c].Data = w.buf[c].Data
    /\ DOMAIN r.w.buf = DOMAIN w.buf
    /\ FreeListIn(r.w, k) = Without(FreeListIn(w, k), i)
SplitEffectAt(w, k, size, i, r) ==
    i # 0 =>
        /\ ~r.panic
        /\ r.result # NIL
        /\ IF w.buf[FreeListIn(w, k)[i]].Size > size
           THEN SplitOff(w, k, size, FreeListIn(w, k)[i], r)
           ELSE TakenWhole(w, k, i, FreeListIn(w, k)[i], r)

\* C21 (split effect): when the entry Bucket.Allocate selects is larger than
\* requested, the returned buffer is an item taken from the buffer pool that
\* covers [c.start, c.start + requested), and c stays at its place on the
\* free list with start raised and size lowered by requested; when the entry
\* has exactly the requested size it is unlinked and returned itself, the
\* buffer pool is not touched and the other entries keep their order.
C21_SplitEffect ==
    \A k \in ReservedBucketIds : \A size \in 0..bm.BucketSize :
        SplitEffectAt(World, k, size, FirstFit(World, FreeListIn(World, k), size),
                      bucket_Allocate(World, k, size))
\* The last Allocate cut its buffer off the front of an entry that is still
\* on the free list, behind another entry.
C21_Witness ==
    /\ last.op = "Allocate"
    /\ last.arg > 0
    /\ last.result # NIL
    /\ \E i \in 2..Len(FreeList(buffers[last.result].Bucket)) :
          buffers[FreeList(buffers[last.result].Bucket)[i]].Start = End(buffers[last.result])

\* Bucket k has a free buffer of at least `size` bytes.
BucketFits(k, size) == \E f \in Range(FreeList(k)) : buffers[f].Size >= size
\* The first bucket of `buckets`, in list order, that has one; NIL if none has.
FirstFittingBucket(size) ==
    IF \E i \in 1..Len(BucketList) : BucketFits(BucketList[i], size)
    THEN BucketList[CHOOSE i \in 1..Len(BucketList) :
                        /\ BucketFits(BucketList[i], size)
                        /\ \A j \in 1..(i - 1) : ~BucketFits(BucketList[j], size)]
    ELSE NIL

\* C22 (reuse before growth): BufferManager.Allocate(size) reserves a new
\* bucket only if no bucket in `buckets` has a free buffer of size >= size;
\* otherwise the first such bucket in list order serves the request and
\* ReservedBuckets and ReservedBytes stay as they were.
C22_ReuseBeforeGrowth ==
    [][last'.op = "Allocate" =>
          /\ (bm'.ReservedBuckets # bm.ReservedBuckets \/ Len(buckets') # Len(buckets))
                => FirstFittingBucket(last'.arg) = NIL
          /\ FirstFittingBucket(last'.arg) # NIL =>
                /\ last'.result # NIL
                /\ buffers'[last'.result].Bucket = FirstFittingBucket(last'.arg)
                /\ bm'.ReservedBuckets = bm.ReservedBuckets
                /\ bm'.ReservedBytes = bm.ReservedBytes]_vars
\* The last Allocate was served by a bucket that is listed behind one whose
\* free buffers are all too small.
C22_Witness ==
    /\ last.op = "Allocate"
    /\ last.result # NIL
    /\ \E i \in 2..Len(BucketList) : BucketList[i] = buffers[last.result].Bucket
    /\ Len(BucketList) >= 1
    /\ ~BucketFits(BucketList[1], last.arg)

\* C23 (allocated statistics track the live set): in every reachable state
\* AllocatedBuffers is the number of buffers returned by Allocate and not yet
\* freed and AllocatedBytes is the sum of their sizes; a buffer is handed out
\* with the requested size and keeps it while it is held.
C23_StatsTrackLiveSet ==
    /\ [](/\ bm.AllocatedBuffers = Cardinality(held)
          /\ bm.AllocatedBytes = SizeSum(held))
    /\ [][/\ \A b \in held \cap held' : buffers'[b].Size = buffers[b].Size
          /\ \A b \in held' \ held : buffers'[b].Size = last'.arg]_vars
\* Two buffers of different sizes are still held after a third was freed.
C23_Witness ==
    /\ last.op = "Free"
    /\ Cardinality(held) = 2
    /\ \E a, b \in held : buffers[a].Size < buffers[b].Size
    /\ bm.AllocatedBytes > 0

\* C24 (reattach on free): Free of a buffer whose bucket is detached puts that
\* bucket at the head of `buckets` and raises AvailableBuckets by exactly one;
\* Free of a buffer whose bucket is in `buckets` leaves the list's members,
\* their order and AvailableBuckets as they were.
C24_ReattachOnFree ==
    [][last'.op = "Free" =>
          IF buffers[last'.arg].Bucket \in Range(BucketList)
          THEN /\ BucketList' = BucketList
               /\ bm'.AvailableBuckets = bm.AvailableBuckets
          ELSE /\ BucketList' = <<buffers[last'.arg].Bucket>> \o BucketList
               /\ bm'.AvailableBuckets = bm.AvailableBuckets + 1]_vars
\* The first Free ever gave a buffer back to a bucket that was wholly handed
\* out, and that bucket now stands in front of another one.
C24_Witness ==
    /\ last.op = "Free"
    /\ bm.TotalAllocatedBuffers - bm.AllocatedBuffers = 1
    /\ buffers[last.arg].Bucket \in drained
    /\ Len(BucketList) = 2
    /\ BucketList[1] = buffers[last.arg].Bucket

\* ------------------------------------------------------- claims, pool (3)
\* r is what Allocate returned on the pool `this` with items `heap`: the item
\* is blank, and the free list is the former one without its head, or, when
\* the former one was empty, the rest of the batch that was minted.
HandsOutBlank(this, heap, r) ==
    /\ ~r.panic
    /\ r.result # NIL
    /\ r.heap[r.result] = ZeroBuffer
    /\ IF this.avail # NIL
       THEN /\ r.result = this.avail
            /\ ListFrom(r.heap, r.this.avail) = Tail(ListFrom(heap, this.avail))
       ELSE /\ r.result = Len(heap) + 1
            /\ ListFrom(r.heap, r.this.avail) =
                  [i \in 1..(this.burstSize - 1) |-> Len(heap) + 1 + i]

\* C25 (pool Allocate hands out blank items): the item Allocate returns has
\* been reset, next link none and every field blank, whatever it held when it
\* was freed, and the pool's free list after the call is the former list
\* without its head.
C25_BlankItems ==
    HandsOutBlank(bm.BufferAllocator, buffers,
                  memoryAllocator_Allocate(bm.BufferAllocator, buffers))
\* The buffer pool's free list holds two buffers that were given back after a
\* merge, the first still carrying its bucket, range and link.
C25_Witness ==
    /\ Len(PoolAvail) >= 2
    /\ buffers[PoolAvail[1]].Bucket # NIL
    /\ buffers[PoolAvail[1]].Size > 0
    /\ buffers[PoolAvail[1]].Data # NilSlice
    /\ buffers[PoolAvail[1]].Next # NIL

\* f is what Free(item) left of the pool `this` with items `heap`: only the
\* item's link, the head of the list and allocatedItems differ, and the next
\* Allocate, a, returns the item.
PushedOnly(this, heap, item, f, a) ==
    /\ f.this = [this EXCEPT !.avail = item, !.allocatedItems = @ - 1]
    /\ f.this.reservedItems = this.reservedItems
    /\ f.heap = [heap EXCEPT ![item].Next = this.avail]
    /\ ListFrom(f.heap, f.this.avail) = <<item>> \o ListFrom(heap, this.avail)
    /\ ~a.panic
    /\ a.result = item
    /\ a.this.reservedItems = this.reservedItems
PushedOnlyAfter(this, heap, item, f) ==
    PushedOnly(this, heap, item, f, memoryAllocator_Allocate(f.this, f.heap))

\* C26 (pool Free is a LIFO push without reset): Free(item) of a non-null item
\* changes only item.next, the head of the free list and allocated (one
\* less); the item's other fields and reserved stay as they were, and the
\* next Allocate returns that same item.
C26_FreeIsPush ==
    \A item \in DOMAIN buffers \ Range(PoolAvail) :
        PushedOnlyAfter(bm.BufferAllocator, buffers, item,
                        memoryAllocator_Free(bm.BufferAllocator, buffers, item))
\* The last Free of the manager merged two buffers and gave one to the buffer
\* pool, where it heads a list of two with its range and bucket still set.
C26_Witness ==
    /\ last.op = "Free"
    /\ Len(PoolAvail) = 2
    /\ buffers[PoolAvail[1]].Size > 0
    /\ buffers[PoolAvail[1]].Bucket # NIL
    /\ buffers[PoolAvail[1]].Next = PoolAvail[2]
    /\ \E b \in held : buffers[b].Size > 0

\* C27 (minting only on an empty list): reserved never decreases; it changes
\* only in an Allocate that finds the free list empty, where it grows by
\* exactly the number of items the factory returned; an Allocate that finds a
\* non-empty free list does not call the factory.
C27_MintOnEmptyOnly ==
    [][/\ ma'.reservedItems >= ma.reservedItems
       /\ (ma'.reservedItems # ma.reservedItems \/ Len(items') # Len(items)) =>
             /\ last'.op = "PoolAllocate"
             /\ ma.avail = NIL
             /\ ma'.reservedItems - ma.reservedItems
                   = Len(CallFactory(ma.factory, ma.burstSize).items)
             /\ Len(items') - Len(items)
                   = Len(CallFactory(ma.factory, ma.burstSize).items)
       /\ (last'.op \in {"PoolAllocate", "PoolAllocateFaulty"} /\ ma.avail # NIL) =>
             /\ ma'.reservedItems = ma.reservedItems
             /\ Len(items') = Len(items)]_vars
\* More Allocate calls have returned than items were ever minted: the last one
\* took an item that had been freed, and a larger batch was minted before.
C27_Witness ==
    /\ last.op = "PoolAllocate"
    /\ ~last.panic
    /\ ma.reservedItems >= 2
    /\ calls.alloc > ma.reservedItems

\* ---------------------------------------------- claims, buffer manager (5)
\* C28: a Release that entered its loop leaves it, however often a merge sends
\* the scan back to the head, and it merges at most as many times as the free
\* list had entries when it started; so the Free that called it returns.
C28_ReleaseTerminates ==
    /\ [](rel.merges <= rel.entries)
    /\ (rel.at = "scan") ~> (rel.at = "idle")
\* A Release that merged twice, the second time after a restart at the head.
C28_Witness ==
    /\ rel.at = "scan"
    /\ rel.merges = 2
    /\ rel.entries = 2
    /\ FreeAt(World, rel.bucket, rel.prev) = NIL

\* ------------------------------------------------------- claims, Free(nil)
\* A step in which a Free(nil) returns: of the plain manager or pool, of the
\* synchronized pool, or the body of the synchronized manager's.
FreeNilReturns ==
    \/ last' # last /\ last'.op \in {"Free", "PoolFree"} /\ last'.arg = NIL
    \/ \E p \in Callers :
          /\ pc[p].at = "body" /\ pc[p].obj = "bm" /\ pc[p].op = "Free" /\ pc[p].arg = NIL
          /\ pc'[p].at = "idle"
\* C29: Free(nil) on a plain or synchronized pool and on a plain or synchronized
\* manager changes no counter, no free list and not the bucket list, takes no
\* buffer or item from its holder, and does not panic.
C29_FreeNilNoOp ==
    [][FreeNilReturns =>
          /\ UNCHANGED <<buffers, buckets, bm, held, ma, items, out>>
          /\ ~last'.panic
          /\ net'.panics = net.panics]_vars
\* Free(nil) returned on a manager with a live buffer and a free remainder.
C29_Witness ==
    /\ shared = "bufferManager"
    /\ last.op = "Free" /\ last.arg = NIL /\ ~last.panic
    /\ held # {}
    /\ \E k \in ReservedBucketIds : FreeList(k) # <<>>

\* ------------------------------------------------------ claims, services (2)
\* C30: in an execution started by ExecuteServiceAsync or ExecuteAsyncService,
\* Shutdown (Stop) is called at most once, and only once stopRequested has fired:
\* with a nil channel or one that never fires it is never called.
C30_ShutdownDiscipline ==
    /\ svc.shutdowns <= 1
    /\ svc.shutdowns > 0 => svc.stopRequested = "closed"
\* Stop was called once on an AsyncService, whose result the watcher then took.
C30_Witness ==
    /\ svc.api = "ExecuteAsyncService"
    /\ svc.shutdowns = 1
    /\ svc.watcher = "done"
    /\ svc.runReturned

\* ------------------------------------------------- claims, conservation laws
RECURSIVE FreeEntryCount(_)
\* The number of entries on the free lists of the buckets in S.
FreeEntryCount(S) ==
    IF S = {} THEN 0
    ELSE LET k == CHOOSE x \in S : TRUE
         IN  Len(FreeList(k)) + FreeEntryCount(S \ {k})

RECURSIVE FreeByteCount(_)
\* The summed sizes of the entries on the free lists of the buckets in S.
FreeByteCount(S) ==
    IF S = {} THEN 0
    ELSE LET k == CHOOSE x \in S : TRUE
         IN  SumSizesIn(World, FreeList(k)) + FreeByteCount(S \ {k})

\* C32 (byte conservation): AllocatedBytes plus the sizes of all free-list
\* buffers of all reserved buckets is ReservedBytes, ReservedBytes is
\* ReservedBuckets * BucketSize, and the bucket pool's AllocatedItems is
\* ReservedBuckets.
C32_ByteConservation ==
    /\ bufferManager_GetStats(World).AllocatedBytes + FreeByteCount(ReservedBucketIds)
           = bufferManager_GetStats(World).ReservedBytes
    /\ bm.ReservedBytes = bm.ReservedBuckets * bm.BucketSize
    /\ memoryAllocator_GetStats(bm.BucketAllocator).AllocatedItems = bm.ReservedBuckets
    /\ Cardinality(ReservedBucketIds) = bm.ReservedBuckets
\* Two buckets are reserved, bytes of both are out and bytes of one are free.
C32_Witness ==
    /\ bm.ReservedBuckets = 2
    /\ bm.AllocatedBytes > bm.BucketSize
    /\ FreeByteCount(ReservedBucketIds) > 0
    /\ last.op = "Free"

\* --------------------------------------------------- claims, list structure
RECURSIVE BucketWalk(_, _)
\* Follow Next from `head`: the buckets met, and what ended the walk (nil, the
\* sentinel, or a bucket met before).
BucketWalk(head, seen) ==
    IF head = NIL THEN [list |-> seen, end |-> "nil"]
    ELSE IF head = sentry_bucket THEN [list |-> seen, end |-> "sentinel"]
    ELSE IF head \in Range(seen) THEN [list |-> seen, end |-> "cycle"]
    ELSE BucketWalk(buckets[head].Next, Append(seen, head))

\* C33 (well-formed bucket list): the walk from this.Buckets ends at nil, having
\* met no bucket twice and not the sentinel, its members are reserved buckets,
\* and AvailableBuckets is its length.
C33_WellFormedBucketList ==
    /\ BucketWalk(bm.Buckets, <<>>).end = "nil"
    /\ Range(BucketWalk(bm.Buckets, <<>>).list) \subseteq ReservedBucketIds
    /\ bufferManager_GetStats(World).AvailableBuckets = Len(BucketWalk(bm.Buckets, <<>>).list)
\* Two buckets are listed after reattachments while a third is detached.
C33_Witness ==
    /\ last.op = "Free"
    /\ Len(BucketWalk(bm.Buckets, <<>>).list) = 2
    /\ \E k \in ReservedBucketIds : buckets[k].Next = sentry_bucket

\* ------------------------------------------------------- claims, data view
\* The buffers a caller holds and the entries of all free lists.
LiveBuffers == held \cup UNION {Range(FreeList(k)) : k \in ReservedBucketIds}
\* GetData() of buffer b is Bucket.Buffer[Start : Start + Size].
DataIsRange(b) ==
    /\ buffers[b].Bucket \in ReservedBucketIds
    /\ buffers[b].Data = Slice(buckets[buffers[b].Bucket].Buffer, buffers[b].Start,
                               End(buffers[b]))
    /\ buffers[b].Data.len = buffers[b].Size

\* C34 (data view matches the range): for every buffer, held or on a free list,
\* Data is the slice [Start, Start + Size) of its bucket's backing storage, so
\* len(GetData()) = GetSize().
C34_DataMatchesRange == \A b \in LiveBuffers : DataIsRange(b)
\* A merged free entry of two bytes lies before a held buffer cut further back.
C34_Witness ==
    /\ last.op = "Free"
    /\ bm.BufferAllocator.avail # NIL
    /\ \E b \in held : buffers[b].Start >= 2 /\ buffers[b].Size > 0
    /\ \E k \in ReservedBucketIds : \E f \in Range(FreeList(k)) :
          buffers[f].Size = 2 /\ buffers[f].Start = 0

\* C35 (no zero-length free fragments): no free list holds a buffer of size 0,
\* and every bucket in `buckets` has at least one free byte.
C35_NoZeroLengthFree ==
    /\ \A k \in ReservedBucketIds : \A f \in Range(FreeList(k)) : buffers[f].Size > 0
    /\ \A k \in Range(BucketList) : SumSizesIn(World, FreeList(k)) > 0

\* ------------------------------------------------- claims, negative sizes
\* C36 (negative sizes do not corrupt state): an Allocate(size) with size < 0
\* hands out no buffer and leaves the manager's counters, both pools' counters,
\* the bucket list and every bucket's free list as they were.
C36_NegativeSizeHarmless ==
    [][(last' # last /\ last'.op = "Allocate" /\ last'.arg < 0) =>
          /\ last'.result = NIL
          /\ held' = held
          /\ bufferManager_GetStats(World)' = bufferManager_GetStats(World)
          /\ BucketList' = BucketList
          /\ ReservedBucketIds' = ReservedBucketIds
          /\ \A k \in ReservedBucketIds : FreeList(k)' = FreeList(k)]_vars

\* ------------------------------------------------------- claims, channels
\* C37 (SignalWhenAllErr waits for all): the consumer gets the slice only after
\* every input channel delivered, element i is what channels[i] delivered, and
\* no goroutine panics.
C37_AllWaitsForAll ==
    /\ ~sig.panic
    /\ sig.received # <<>> =>
          /\ sig.takenAtReceive = 1..sig.n
          /\ \A i \in 1..sig.n : sig.received[1][i] = sig.val[i]

\* C38 (SignalWhenAnyErr signals once): at most one value is sent on the
\* returned channel, it came from an input channel, done is closed at most
\* once and no goroutine panics, also when the consumer receives again.
C38_AnySignalsOnce ==
    /\ ~sig.panic
    /\ Len(sig.received) <= 1
    /\ sig.closes <= 1
    /\ \A j \in DOMAIN sig.received : \E i \in sig.taken : sig.received[j] = sig.val[i]

\* ------------------------------------------------ claims, merged services
\* Component i's Run returned a failure that is neither of the two sentinels.
ComponentFailed(i) ==
    /\ svc.merged.cpc[i] # "Run"
    /\ svc.merged.cres[i] \notin {ErrNil, ErrServiceStopped, http_ErrServerClosed}

\* C39 (merged services do not hide failures): when RunService has returned
\* for a service built by MergeServices, every component's Run has returned,
\* and the returned error is non-nil if some component's Run returned an
\* error other than ErrServiceStopped or http.ErrServerClosed, whatever the
\* other components returned.
C39_MergedFailuresShown ==
    (svc.api = "RunService" /\ svc.caller = "returned") =>
        /\ \A i \in 1..svc.merged.n : svc.merged.cpc[i] # "Run"
        /\ (\E i \in 1..svc.merged.n : ComponentFailed(i)) => svc.result # ErrNil

====
